---- MODULE Spec2Model ----
(***************************************************************************)
(* A model of matchdb-jobs-ui: the candidate and vendor dashboards, the    *)
(* MatchDataTable they share, the mail-template composer, the jobs slice   *)
(* of the store and the backend calls in flight.                           *)
(*                                                                         *)
(* Text is a sequence of one-character strings; a missing (undefined)      *)
(* field is the empty sequence.  Time is in milliseconds.                  *)
(***************************************************************************)
EXTENDS Integers, Sequences, FiniteSets, TLC

(* ------------------------------ bounds -------------------------------- *)

\* clock advances per behaviour
MaxTicks == 2
\* backend requests of one kind in flight at once
MaxInflight == 2
\* poke/mail requests dispatched per behaviour
MaxSends == 2
MaxMatchFetches == 1
MaxRows == 26
MaxPieces == 3
MaxParses == 1

(* ------------------------- program constants -------------------------- *)

MAIL_MATCH_THRESHOLD == 75
POKE_MATCH_THRESHOLD == 25
POKE_COOLDOWN_MS == 24 * 60 * 60 * 1000
HOUR_MS == 60 * 60 * 1000

\* A poke limit is <<n>> when finite and <<>> for Infinity.
Infinite == <<>>
IsFinite(limit) == limit # Infinite

\* POKE_LIMIT of the three dashboards, with the `?? default` of the lookup.
CandidatePokeLimit(plan) ==
  CASE plan = "free" -> <<5>>
    [] plan = "basic" -> <<25>>
    [] plan = "pro" -> <<50>>
    [] plan \in {"pro_plus", "enterprise"} -> Infinite
    [] OTHER -> <<5>>

VendorPokeLimit(plan) ==
  CASE plan = "free" -> <<0>>
    [] plan = "basic" -> <<25>>
    [] plan = "pro" -> <<50>>
    [] plan \in {"pro_plus", "enterprise"} -> Infinite
    [] OTHER -> <<0>>

LegacyVendorPokeLimit(plan) ==
  CASE plan = "free" -> <<0>>
    [] plan = "pro" -> <<50>>
    [] plan = "enterprise" -> Infinite
    [] OTHER -> <<0>>

(* ------------------------------ state --------------------------------- *)

VARIABLES
  props,                \* dashboard mounted and its props
  now, ticks,           \* Date.now() and the number of clock advances
  srvMatches,           \* backend: the match list it serves
  srvPokes,             \* backend: PokeRecords persisted for this sender
  matches,              \* store: candidateMatches / vendorCandidateMatches
  loading,              \* store: loading
  pokesSent,            \* store: pokesSent
  pokeLoading,          \* store: pokeLoading
  matchesInflight,      \* match-list requests in flight
  pokesFetches,         \* fetchPokesSent requests in flight
  sendReqs,             \* sendPoke requests in flight
  sendCount,            \* sendPoke requests dispatched so far
  rows,                 \* dashboard: the memoised row set
  searchText, filterType, filterSubType, filterWorkMode,
  membershipConfig,     \* prop: purchased visibility, type -> sub-types
  pokeEmailRow,         \* dashboard: <<>> (null) or <<row>> of the composer
  pokeEmailSentSuccess, \* dashboard: pokeEmailSentSuccess
  closeTimers,          \* vendor dashboard: pending 2 s close timeouts
  localPokeCount,       \* legacy vendor dashboard: pokeCount state
  lastCall,             \* the callback the last step invoked
  page, pageSize,       \* table: page index and page size
  sortKey, sortDir,     \* table: <<>> (null) or <<key>>, "asc" or "desc"
  resetPending,         \* table: the page-reset effect is scheduled
  csvOut,               \* <<>> or <<lines>> of the CSV the last step downloaded
  pasteText,            \* post-job page: the pasted text
  parseResult,          \* post-job page: <<>> (null) or <<ParsedJob>>
  form,                 \* post-job page: the form state
  pasted,               \* post-job page: the pieces typed since the text was empty
  parses,               \* post-job page: the number of Parse & Fill clicks
  success,              \* post-job page: the "posted" message is shown
  generatingPdf,        \* composer: generatingPdf
  sendClicks,           \* composer: the Send clicks handleSend accepted so far
  onSendLog,            \* composer: the calls of onSend so far, oldest first
  error, profileError, pokeError,  \* store: <<>> (null) or <<message>>
  profileLoading, pokesLoading,    \* store: the two other loading flags
  calls,                \* slice on its own: the thunks whose call is in flight
  lastRejected,         \* <<>>, or <<the call the last step rejected>>
  vendorJobs,           \* store: is_active of each posting of vendorJobs
  srvJobs,              \* backend: is_active of each posting
  selectedJobPosting,   \* vendor dashboard: <<>> (null) or <<the Job of the modal>>
  closingJobId,         \* vendor dashboard: <<>> (null) or <<job id>>
  busy, confirm,        \* JobPostingModal: busy, confirm
  jobCalls,             \* closeJob / reopenJob requests in flight
  timerRef,             \* useDraftCache: timerRef.current, 0 for null
  timers,               \* the browser's pending timeouts
  storage,              \* localStorage: <<>> or <<the text under the key>>
  mounted,              \* the component that uses the hook is mounted
  draftNow,             \* the time in ms
  draftCalls,           \* history: the calls of saveDraft, clearDraft, unmount
  writes,               \* history: the calls of localStorage.setItem
  selectedJobId,        \* vendor dashboard: the job of the URL, 0 for ''
  vendorCandidateMatches, \* store: the candidates of the last response
  vcmReqs,              \* fetchVendorCandidateMatches requests in flight
  jobsInflight,         \* fetchVendorJobs requests in flight
  vcmFailed,            \* history: a fetchVendorCandidateMatches was rejected
  mountStep,            \* candidate dashboard: how far its mount has come
  hasPurchasedVisibility, \* the prop of the candidate dashboard
  srvProfile,           \* backend: <<>> or <<the candidate's profile>>
  profile,              \* store: null (<<>>) or <<the profile>>
  seen,                 \* profileLoading and profile as the last render read them
  profileChecked,       \* profileChecked.current
  profileOpen,          \* useState(false)
  autoOpens, decisions  \* history: setProfileOpen(true) by the effect, its decisions

clockVars == <<now, ticks>>
backendVars == <<srvMatches, srvPokes>>
storeVars == <<matches, loading, pokesSent, pokeLoading>>
flightVars == <<matchesInflight, pokesFetches, sendReqs, sendCount>>
filterVars == <<searchText, filterType, filterSubType, filterWorkMode, membershipConfig>>
composerVars == <<pokeEmailRow, pokeEmailSentSuccess, closeTimers>>

tableVars == <<page, pageSize, sortKey, sortDir, resetPending>>
parseVars == <<pasteText, pasted, parseResult, form, parses, success>>

modalVars == <<generatingPdf, sendClicks, onSendLog>>
sliceVars == <<error, profileError, pokeError, profileLoading, pokesLoading, calls,
               lastRejected>>

jobVars == <<vendorJobs, srvJobs, selectedJobPosting, closingJobId, busy, confirm,
             jobCalls>>

\* the state of the components that are modelled on their own further on
draftVars == <<timerRef, timers, storage, mounted, draftNow, draftCalls, writes>>

vcmVars == <<selectedJobId, vendorCandidateMatches, vcmReqs, jobsInflight, vcmFailed>>

profileVars == <<mountStep, hasPurchasedVisibility, srvProfile, profile, seen,
                 profileChecked, profileOpen, autoOpens, decisions>>

restVars == <<jobVars, draftVars, vcmVars, profileVars>>

\* what the poke and mail handlers of the dashboards never touch
asideVars == <<tableVars, csvOut, parseVars, modalVars, sliceVars, restVars>>

vars == <<props, clockVars, backendVars, storeVars, flightVars, rows, filterVars,
          composerVars, localPokeCount, lastCall, asideVars>>

(* ------------------------------- text --------------------------------- *)

UPPER == <<"A","B","C","D","E","F","G","H","I","J","K","L","M",
           "N","O","P","Q","R","S","T","U","V","W","X","Y","Z">>
LOWER == <<"a","b","c","d","e","f","g","h","i","j","k","l","m",
           "n","o","p","q","r","s","t","u","v","w","x","y","z">>
DIGITS == <<"0","1","2","3","4","5","6","7","8","9">>
WHITESPACE == {" ", "\n", "\t", "\r"}

Range(s) == {s[i] : i \in DOMAIN s}
IndexIn(s, c) == CHOOSE i \in DOMAIN s : s[i] = c

LowerOf == [c \in Range(UPPER) |-> LOWER[IndexIn(UPPER, c)]]
UpperOf == [c \in Range(LOWER) |-> UPPER[IndexIn(LOWER, c)]]
ToLowerChar(c) == IF c \in DOMAIN LowerOf THEN LowerOf[c] ELSE c
ToUpperChar(c) == IF c \in DOMAIN UpperOf THEN UpperOf[c] ELSE c

\* String.prototype.toLowerCase / toUpperCase
ToLowerCase(s) == [i \in DOMAIN s |-> ToLowerChar(s[i])] \o <<>>
ToUpperCase(s) == [i \in DOMAIN s |-> ToUpperChar(s[i])] \o <<>>

\* String.prototype.trim
RECURSIVE TrimStart(_)
TrimStart(s) ==
  IF s # <<>> /\ Head(s) \in WHITESPACE THEN TrimStart(Tail(s)) ELSE s
RECURSIVE TrimEnd(_)
TrimEnd(s) ==
  IF s # <<>> /\ s[Len(s)] \in WHITESPACE
  THEN TrimEnd(SubSeq(s, 1, Len(s) - 1)) ELSE s
Trim(s) == TrimEnd(TrimStart(s))

\* the characters of a string literal
Chars(str) == [i \in 1..Len(str) |-> SubSeq(str, i, i)] \o <<>>

\* String.prototype.includes
Includes(hay, needle) ==
  \E i \in 0..(Len(hay) - Len(needle)) : SubSeq(hay, i + 1, i + Len(needle)) = needle

\* a || b on strings: the empty string is falsy
OrElse(a, b) == IF a # <<>> THEN a ELSE b

\* String(n) for an integer n >= 0
RECURSIVE NumberToString(_)
NumberToString(n) ==
  IF n < 10 THEN <<DIGITS[n + 1]>>
  ELSE NumberToString(n \div 10) \o <<DIGITS[(n % 10) + 1]>>

\* s.split(sep)[k] for a one-character separator; <<>> when there is no such part
RECURSIVE SplitPart(_, _, _)
SplitPart(s, sep, k) ==
  LET cut == {i \in DOMAIN s : s[i] = sep} IN
  IF cut = {} THEN (IF k = 0 THEN s ELSE <<>>)
  ELSE LET first == CHOOSE i \in cut : \A j \in cut : i <= j IN
       IF k = 0 THEN SubSeq(s, 1, first - 1)
       ELSE SplitPart(SubSeq(s, first + 1, Len(s)), sep, k - 1)

IsAlnum(c) == c \in Range(UPPER) \cup Range(LOWER) \cup Range(DIGITS)


(* ----------------------------- records --------------------------------- *)

FULL_TIME == <<"f","u","l","l","_","t","i","m","e">>
PART_TIME == <<"p","a","r","t","_","t","i","m","e">>
CONTRACT == <<"c","o","n","t","r","a","c","t">>
C2C == <<"c","2","c">>
C2H == <<"c","2","h">>
W2 == <<"w","2">>
T1099 == <<"1","0","9","9">>
DIRECT_HIRE == <<"d","i","r","e","c","t","_","h","i","r","e">>
SALARY == <<"s","a","l","a","r","y">>
REMOTE == <<"r","e","m","o","t","e">>
ONSITE == <<"o","n","s","i","t","e">>
HYBRID == <<"h","y","b","r","i","d">>
DASH == <<"-">>

JOB_TYPES == <<FULL_TIME, PART_TIME, CONTRACT>>
WORK_MODES == <<REMOTE, ONSITE, HYBRID>>
CONTRACT_SUB_TYPES == <<C2C, C2H, W2, T1099>>
FULL_TIME_SUB_TYPES == <<C2H, W2, DIRECT_HIRE, SALARY>>

Dashboards == {"candidate", "vendor", "vendorLegacy"}
IsCandidateDash == props.dash = "candidate"

\* A Job of the store (jobsSlice), the fields the dashboards read.
Job(id, title, email, location, jt, st, wm, recruiter, pct) ==
  [id |-> id, title |-> title, vendor_email |-> email, location |-> location,
   job_type |-> jt, job_sub_type |-> st, work_mode |-> wm,
   recruiter_name |-> recruiter, recruiter_phone |-> <<>>,
   pay_per_hour |-> 0, experience_required |-> 0, match_percentage |-> pct]

\* A CandidateProfileMatch of the store, the fields the dashboards read.
Candidate(id, name, email, role, location, pct) ==
  [id |-> id, name |-> name, email |-> email, phone |-> <<>>,
   current_company |-> <<>>, current_role |-> role,
   preferred_job_type |-> <<>>, expected_hourly_rate |-> 0,
   experience_years |-> 0, location |-> location, match_percentage |-> pct,
   matched_job_title |-> <<>>]

\* formatRate / formatExperience
formatRate(value) == IF value # 0 THEN <<"$">> \o NumberToString(value) ELSE DASH
formatExperience(value) == NumberToString(value) \o <<" ","y","r","s">>

\* companyFromEmail
companyFromEmail(email) ==
  IF email = <<>> THEN DASH
  ELSE LET domain == SplitPart(email, "@", 1)
           head == SplitPart(domain, ".", 0)
           clean == [i \in DOMAIN head |-> IF IsAlnum(head[i]) THEN head[i] ELSE " "]
       IN IF domain # <<>> THEN OrElse(Trim(clean), DASH) ELSE DASH

\* The MatchRow a candidate dashboard builds of a job.
JobRow(job) ==
  [id |-> job.id,
   name |-> OrElse(job.recruiter_name, <<"R","e","c","r","u","i","t","e","r">>),
   company |-> companyFromEmail(job.vendor_email),
   email |-> OrElse(job.vendor_email, DASH),
   phone |-> OrElse(job.recruiter_phone, DASH),
   role |-> job.title,
   type |-> IF job.job_sub_type # <<>>
            THEN OrElse(job.job_type, DASH) \o <<" ", "(">>
                 \o ToUpperCase(job.job_sub_type) \o <<")">>
            ELSE OrElse(job.job_type, DASH),
   payPerHour |-> formatRate(job.pay_per_hour),
   experience |-> formatExperience(job.experience_required),
   matchPercentage |-> job.match_percentage,
   location |-> OrElse(job.location, DASH),
   workMode |-> OrElse(job.work_mode, DASH),
   pokeTargetEmail |-> job.vendor_email,
   pokeTargetName |-> OrElse(job.recruiter_name, <<"V","e","n","d","o","r">>),
   pokeSubjectContext |-> OrElse(job.title, <<"J","o","b"," ","o","p","e","n","i","n","g">>)]

\* The MatchRow a vendor dashboard builds of a candidate; workMode is left undefined.
CandidateRow(c) ==
  [id |-> c.id,
   name |-> OrElse(c.name, DASH),
   company |-> OrElse(c.current_company, DASH),
   email |-> OrElse(c.email, DASH),
   phone |-> OrElse(c.phone, DASH),
   role |-> OrElse(c.current_role, DASH),
   type |-> OrElse(c.preferred_job_type, DASH),
   payPerHour |-> formatRate(c.expected_hourly_rate),
   experience |-> formatExperience(c.experience_years),
   matchPercentage |-> c.match_percentage,
   location |-> OrElse(c.location, DASH),
   workMode |-> <<>>,
   pokeTargetEmail |-> c.email,
   pokeTargetName |-> OrElse(c.name, <<"C","a","n","d","i","d","a","t","e">>),
   pokeSubjectContext |-> OrElse(c.matched_job_title, <<"J","o","b"," ","o","p","e","n","i","n","g">>)]


(* ------------------- candidate dashboard: the row set ------------------ *)

hasMembership == membershipConfig.present /\ DOMAIN membershipConfig.subs # {}

showType(type) == ~hasMembership \/ type \in DOMAIN membershipConfig.subs

showSubtype(type, sub) ==
  IF ~hasMembership THEN TRUE
  ELSE /\ type \in DOMAIN membershipConfig.subs
       /\ (membershipConfig.subs[type] = {} \/ sub \in membershipConfig.subs[type])

\* the free-text test without its location term
JobTextPassNoLocation(job, q) ==
  \/ q = <<>>
  \/ Includes(ToLowerCase(job.title), q)
  \/ Includes(ToLowerCase(job.vendor_email), q)

\* the free-text test of the candidate dashboard
JobTextPass(job, q) ==
  \/ q = <<>>
  \/ Includes(ToLowerCase(job.title), q)
  \/ Includes(ToLowerCase(job.location), q)
  \/ Includes(ToLowerCase(job.vendor_email), q)

\* the predicate of candidateMatches.filter(...)
JobPasses(job) ==
  LET type == job.job_type
      sub == job.job_sub_type
      gate == hasMembership =>
                (showType(type) /\ (sub # <<>> => showSubtype(type, sub)))
      typePass == filterType # <<>> => job.job_type = filterType
      subTypePass == filterSubType # <<>> => job.job_sub_type = filterSubType
      workModePass == filterWorkMode # <<>> => job.work_mode = filterWorkMode
      q == ToLowerCase(Trim(searchText))
  IN gate /\ typePass /\ subTypePass /\ workModePass /\ JobTextPass(job, q)

\* the predicate of vendorCandidateMatches.filter(...)
CandidatePasses(candidate) ==
  LET q == ToLowerCase(Trim(searchText)) IN
  \/ q = <<>>
  \/ Includes(ToLowerCase(candidate.name), q)
  \/ Includes(ToLowerCase(candidate.current_role), q)
  \/ Includes(ToLowerCase(candidate.location), q)
  \/ Includes(ToLowerCase(candidate.email), q)

\* what the useMemo of `rows` computes when it runs (rows holds the source
\* records; RowOf maps one to its MatchRow)
ComputedRows ==
  IF IsCandidateDash THEN SelectSeq(matches, JobPasses)
  ELSE SelectSeq(matches, CandidatePasses)

RowOf(rec) == IF IsCandidateDash THEN JobRow(rec) ELSE CandidateRow(rec)

(* --------------------- MatchDataTable: action gating ------------------- *)

\* the isVendor prop: the legacy vendor dashboard leaves it at its default
isVendor == props.dash = "vendor"
\* pokedRowIds / emailedRowIds / pokedAtMap / onPokeEmail are passed
PassesPokeProps == props.dash # "vendorLegacy"

QuickPokes == {i \in DOMAIN pokesSent : ~pokesSent[i].is_email}
MailPokes == {i \in DOMAIN pokesSent : pokesSent[i].is_email}
pokedRowIds == {pokesSent[i].target_id : i \in QuickPokes}
emailedRowIds == {pokesSent[i].target_id : i \in MailPokes}
pokeCount == Cardinality(QuickPokes)

\* pokedAtMap.get(id): <<>> when absent; a later entry of the list wins
pokedAtMap(id) ==
  LET hits == {i \in QuickPokes : pokesSent[i].target_id = id} IN
  IF hits = {} THEN <<>>
  ELSE <<pokesSent[CHOOSE i \in hits : \A j \in hits : j <= i].created_at>>

alreadyPoked(row) == PassesPokeProps /\ row.id \in pokedRowIds
alreadyEmailed(row) == PassesPokeProps /\ row.id \in emailedRowIds
mailMatchTooLow(row) == ~isVendor /\ row.matchPercentage < MAIL_MATCH_THRESHOLD
pokeMatchTooLow(row) == ~isVendor /\ row.matchPercentage < POKE_MATCH_THRESHOLD

pokeTooRecent(row) ==
  /\ PassesPokeProps
  /\ pokedAtMap(row.id) # <<>>
  /\ now - pokedAtMap(row.id)[1] < POKE_COOLDOWN_MS

\* pokeDisabled without its alreadyEmailed term
pokeDisabledIgnoringEmailed(row) ==
  pokeLoading \/ alreadyPoked(row) \/ pokeMatchTooLow(row)

pokeDisabled(row) ==
  pokeLoading \/ alreadyPoked(row) \/ alreadyEmailed(row) \/ pokeMatchTooLow(row)

\* mailDisabled without its pokeTooRecent term
mailDisabledIgnoringCooldown(row) == alreadyEmailed(row) \/ mailMatchTooLow(row)

mailDisabled(row) ==
  alreadyEmailed(row) \/ mailMatchTooLow(row) \/ pokeTooRecent(row)


(* ---------------------- dashboards: poke and mail ---------------------- *)

NoCall == [op |-> "none", id |-> 0]
NoMembership == [present |-> FALSE, subs |-> <<>>]

pokeLimit ==
  CASE props.dash = "candidate" -> CandidatePokeLimit(props.plan)
    [] props.dash = "vendor" -> VendorPokeLimit(props.plan)
    [] OTHER -> LegacyVendorPokeLimit(props.plan)

ComposerOpen == pokeEmailRow # <<>>

\* The dashboard is unlocked: the toolbar and the table are rendered.
Unlocked ==
  CASE props.dash = "candidate" -> props.hasPurchasedVisibility
    [] props.dash = "vendor" -> props.plan # "free"
    [] OTHER -> TRUE

\* The table renders its rows, and no modal overlay covers them.
TableShown == Unlocked /\ ~loading /\ ~ComposerOpen

FreeSlot(reqs) ==
  LET free == (1..MaxInflight) \ {r.slot : r \in reqs} IN
  IF free = {} THEN 0 ELSE CHOOSE k \in free : \A j \in free : k <= j

\* dispatch(sendPoke(...)): the pending reducer and the request
DispatchSendPoke(target, email, origin) ==
  /\ sendCount < MaxSends
  /\ FreeSlot(sendReqs) # 0
  /\ pokeLoading' = TRUE
  /\ sendReqs' = sendReqs \cup
       {[slot |-> FreeSlot(sendReqs), target_id |-> target, is_email |-> email,
         origin |-> origin]}
  /\ sendCount' = sendCount + 1

\* dispatch(fetchPokesSent(token))
CanFetchPokes == Len(pokesFetches) < MaxInflight
WithPokesFetch(fetches, records) == Append(fetches, Len(records))

\* handlePoke of the candidate dashboard and of the vendor dashboard
handlePoke(row) ==
  IF row.pokeTargetEmail = <<>> \/ (IsFinite(pokeLimit) /\ pokeCount >= pokeLimit[1])
  THEN UNCHANGED <<pokeLoading, sendReqs, sendCount, localPokeCount>>
  ELSE /\ DispatchSendPoke(row.id, FALSE, "poke")
       /\ UNCHANGED localPokeCount

\* handlePoke of the legacy vendor dashboard: no target id, a local counter
handlePokeLegacy(row) ==
  IF row.pokeTargetEmail = <<>>
     \/ (IsFinite(pokeLimit) /\ localPokeCount >= pokeLimit[1])
  THEN UNCHANGED <<pokeLoading, sendReqs, sendCount, localPokeCount>>
  ELSE /\ DispatchSendPoke(0, FALSE, "legacy")
       /\ localPokeCount' = localPokeCount + 1

\* the Poke button of row i: onClick={() => !pokeDisabled && onPoke(row)}
ClickPoke(i) ==
  /\ TableShown
  /\ i \in DOMAIN rows
  /\ ~pokeDisabled(RowOf(rows[i]))
  /\ lastCall' = [op |-> "onPoke", id |-> rows[i].id]
  /\ IF props.dash = "vendorLegacy" THEN handlePokeLegacy(RowOf(rows[i]))
     ELSE handlePoke(RowOf(rows[i]))
  /\ UNCHANGED <<asideVars, props, clockVars, backendVars, matches, loading, pokesSent,
                 matchesInflight, pokesFetches, rows, filterVars, composerVars>>

\* handlePokeEmail: open the composer on a row
handlePokeEmail(row) ==
  /\ pokeEmailSentSuccess' = FALSE
  /\ pokeEmailRow' = <<row>>

\* the Mail button of row i: onClick={() => !mailDisabled && onPokeEmail(row)}
ClickMail(i) ==
  /\ TableShown
  /\ PassesPokeProps
  /\ i \in DOMAIN rows
  /\ ~mailDisabled(RowOf(rows[i]))
  /\ lastCall' = [op |-> "onPokeEmail", id |-> rows[i].id]
  /\ handlePokeEmail(RowOf(rows[i]))
  /\ UNCHANGED <<asideVars, props, clockVars, backendVars, storeVars, flightVars, rows,
                 filterVars, closeTimers, localPokeCount>>

\* the sidebar item "Mail Template": handlePokeEmail(rows[0])
SidebarMailTemplate ==
  /\ PassesPokeProps
  /\ Unlocked
  /\ ~ComposerOpen
  /\ Len(rows) > 0
  /\ lastCall' = [op |-> "sidebarMail", id |-> rows[1].id]
  /\ handlePokeEmail(RowOf(rows[1]))
  /\ UNCHANGED <<asideVars, props, clockVars, backendVars, storeVars, flightVars, rows,
                 filterVars, closeTimers, localPokeCount>>

\* onClose of the composer
CloseComposer ==
  /\ ComposerOpen
  /\ pokeEmailRow' = <<>>
  /\ pokeEmailSentSuccess' = FALSE
  /\ lastCall' = NoCall
  /\ UNCHANGED <<asideVars, props, clockVars, backendVars, storeVars, flightVars, rows,
                 filterVars, closeTimers, localPokeCount>>

\* handlePokeEmailSend, as onSend of the composer calls it
handlePokeEmailSend ==
  IF ~ComposerOpen
  THEN UNCHANGED <<pokeLoading, sendReqs, sendCount>>
  ELSE DispatchSendPoke(pokeEmailRow[1].id, TRUE, "mail")

\* the Send button of the composer: handleSend, then onSend; blank tells
\* whether the subject or the body the user left in the form trims to nothing
ClickSend(blank) ==
  /\ ComposerOpen
  /\ ~pokeLoading
  /\ ~blank
  /\ ~pokeEmailSentSuccess
  /\ lastCall' = [op |-> "onSend", id |-> pokeEmailRow[1].id]
  /\ handlePokeEmailSend
  /\ UNCHANGED <<asideVars, props, clockVars, backendVars, matches, loading, pokesSent,
                 matchesInflight, pokesFetches, rows, filterVars, composerVars,
                 localPokeCount>>

\* candidate dashboard: the 4 s timer of the success effect
AutoClearSuccess ==
  /\ IsCandidateDash
  /\ pokeEmailSentSuccess
  /\ pokeEmailSentSuccess' = FALSE
  /\ lastCall' = NoCall
  /\ UNCHANGED <<asideVars, props, clockVars, backendVars, storeVars, flightVars, rows,
                 filterVars, pokeEmailRow, closeTimers, localPokeCount>>

\* vendor dashboard: a 2 s timeout set after a successful mail fires
VendorCloseTimer ==
  /\ closeTimers > 0
  /\ closeTimers' = closeTimers - 1
  /\ pokeEmailSentSuccess' = FALSE
  /\ pokeEmailRow' = <<>>
  /\ lastCall' = NoCall
  /\ UNCHANGED <<asideVars, props, clockVars, backendVars, storeVars, flightVars, rows,
                 filterVars, localPokeCount>>

(* ------------------------ backend: sendPoke ---------------------------- *)

\* sendPoke.fulfilled, and the continuation of the handler that awaited it
SendFulfilled(q) ==
  /\ q \in sendReqs
  /\ sendReqs' = sendReqs \ {q}
  /\ srvPokes' = Append(srvPokes,
       [target_id |-> q.target_id, is_email |-> q.is_email, created_at |-> now])
  /\ pokeLoading' = FALSE
  /\ lastCall' = NoCall
  /\ CASE q.origin = "legacy" ->
            UNCHANGED <<pokesFetches, pokeEmailSentSuccess, closeTimers>>
       [] q.origin = "poke" ->
            /\ CanFetchPokes
            /\ pokesFetches' = WithPokesFetch(pokesFetches, srvPokes')
            /\ UNCHANGED <<pokeEmailSentSuccess, closeTimers>>
       [] OTHER ->
            /\ CanFetchPokes
            /\ pokesFetches' = WithPokesFetch(pokesFetches, srvPokes')
            /\ pokeEmailSentSuccess' = TRUE
            /\ closeTimers' = IF props.dash = "vendor" THEN closeTimers + 1
                              ELSE closeTimers
  /\ UNCHANGED <<asideVars, props, clockVars, srvMatches, matches, loading, pokesSent,
                 matchesInflight, sendCount, rows, filterVars, pokeEmailRow, localPokeCount>>

\* sendPoke.rejected
SendRejected(q) ==
  /\ q \in sendReqs
  /\ sendReqs' = sendReqs \ {q}
  /\ pokeLoading' = FALSE
  /\ lastCall' = NoCall
  /\ UNCHANGED <<asideVars, props, clockVars, backendVars, matches, loading, pokesSent,
                 matchesInflight, pokesFetches, sendCount, rows, filterVars,
                 composerVars, localPokeCount>>

(* --------------------- backend: fetchPokesSent ------------------------- *)

\* The requests in flight, oldest first; each remembers how many records the
\* sender had when it was dispatched.  The backend reads the records at some
\* moment between dispatch and arrival, and records are only ever added, so
\* the response holds at least those and at most the ones that exist now.
Without(seq, k) == [j \in 1..(Len(seq) - 1) |-> IF j < k THEN seq[j] ELSE seq[j + 1]]

\* fetchPokesSent.fulfilled: state.pokesSent = action.payload
PokesFetchFulfilled(k, n) ==
  /\ k \in DOMAIN pokesFetches
  /\ n \in pokesFetches[k]..Len(srvPokes)
  /\ pokesFetches' = Without(pokesFetches, k)
  /\ pokesSent' = SubSeq(srvPokes, 1, n)
  /\ lastCall' = NoCall
  /\ UNCHANGED <<asideVars, props, clockVars, backendVars, matches, loading, pokeLoading,
                 matchesInflight, sendReqs, sendCount, rows, filterVars,
                 composerVars, localPokeCount>>

\* fetchPokesSent.rejected
PokesFetchRejected(k) ==
  /\ k \in DOMAIN pokesFetches
  /\ pokesFetches' = Without(pokesFetches, k)
  /\ lastCall' = NoCall
  /\ UNCHANGED <<asideVars, props, clockVars, backendVars, storeVars, matchesInflight,
                 sendReqs, sendCount, rows, filterVars, composerVars, localPokeCount>>

(* ---------------------- backend: the match list ------------------------ *)

\* fetchCandidateMatches / fetchVendorCandidateMatches .fulfilled; the memo of
\* rows runs again because the list it depends on changed
MatchesFulfilled ==
  /\ matchesInflight > 0
  /\ matchesInflight' = matchesInflight - 1
  /\ loading' = FALSE
  /\ matches' = srvMatches
  /\ UNCHANGED <<props, filterVars>>
  /\ rows' = ComputedRows'
  /\ lastCall' = NoCall
  /\ UNCHANGED <<asideVars, clockVars, backendVars, pokesSent, pokeLoading, pokesFetches,
                 sendReqs, sendCount, composerVars, localPokeCount>>

MatchesRejected ==
  /\ matchesInflight > 0
  /\ matchesInflight' = matchesInflight - 1
  /\ loading' = FALSE
  /\ lastCall' = NoCall
  /\ UNCHANGED <<asideVars, props, clockVars, backendVars, matches, pokesSent, pokeLoading,
                 pokesFetches, sendReqs, sendCount, rows, filterVars, composerVars,
                 localPokeCount>>

\* the toolbar button "Refresh": the match list is fetched again
RefreshMatches ==
  /\ Unlocked
  /\ ~ComposerOpen
  /\ matchesInflight < MaxMatchFetches
  /\ matchesInflight' = matchesInflight + 1
  /\ loading' = TRUE
  /\ lastCall' = NoCall
  /\ UNCHANGED <<asideVars, props, clockVars, backendVars, matches, pokesSent, pokeLoading,
                 pokesFetches, sendReqs, sendCount, rows, filterVars, composerVars,
                 localPokeCount>>

\* the sidebar item "Refresh Data": the match list and the poke lists
RefreshData ==
  /\ PassesPokeProps
  /\ ~ComposerOpen
  /\ matchesInflight < MaxMatchFetches
  /\ CanFetchPokes
  /\ matchesInflight' = matchesInflight + 1
  /\ loading' = TRUE
  /\ pokesFetches' = WithPokesFetch(pokesFetches, srvPokes)
  /\ lastCall' = NoCall
  /\ UNCHANGED <<asideVars, props, clockVars, backendVars, matches, pokesSent, pokeLoading,
                 sendReqs, sendCount, rows, filterVars, composerVars, localPokeCount>>

(* ------------------------------ the clock ------------------------------ *)

TickSteps == {12 * HOUR_MS}

Tick(d) ==
  /\ ticks < MaxTicks
  /\ ticks' = ticks + 1
  /\ now' = now + d
  /\ lastCall' = NoCall
  /\ UNCHANGED <<asideVars, props, backendVars, storeVars, flightVars, rows, filterVars,
                 composerVars, localPokeCount>>


\* MatchDataTable after its first render and effects
TableMounted ==
  /\ page = 0
  /\ pageSize = 25
  /\ sortKey = <<>>
  /\ sortDir = "asc"
  /\ resetPending = FALSE

\* the form of the post-job page before any input, null being <<>>
EMPTY ==
  [title |-> <<>>, description |-> <<>>, location |-> <<>>,
   job_type |-> FULL_TIME, job_sub_type |-> <<>>, work_mode |-> <<>>,
   salary_min |-> <<>>, salary_max |-> <<>>, pay_per_hour |-> <<>>,
   skills_required |-> <<>>, experience_required |-> <<>>,
   recruiter_name |-> <<>>, recruiter_phone |-> <<>>]

\* the composer before any Send click: useState(false) of generatingPdf
ModalIdle ==
  /\ generatingPdf = FALSE
  /\ sendClicks = 0
  /\ onSendLog = <<>>

\* initialState of the jobs slice: no error, nothing in flight
SliceIdle ==
  /\ error = <<>>
  /\ profileError = <<>>
  /\ pokeError = <<>>
  /\ profileLoading = FALSE
  /\ pokesLoading = FALSE
  /\ calls = {}
  /\ lastRejected = <<>>

MaxJobs == 2
JobIds == 1..MaxJobs

\* the vendor's postings, all active, and the job-posting modal closed:
\* useState(null), useState(false) twice
JobsIdle ==
  /\ vendorJobs = [j \in JobIds |-> TRUE]
  /\ srvJobs = vendorJobs
  /\ selectedJobPosting = <<>>
  /\ closingJobId = <<>>
  /\ busy = FALSE
  /\ confirm = FALSE
  /\ jobCalls = <<>>

\* useDraftCache just mounted: useRef(null), nothing under the key
DraftIdle ==
  /\ timerRef = 0
  /\ timers = {}
  /\ storage = <<>>
  /\ mounted = TRUE
  /\ draftNow = 0
  /\ draftCalls = <<>>
  /\ writes = <<>>

\* the jobs a fetchVendorCandidateMatches can ask for: 0 is no job_id
\* parameter (all active openings)
JobChoices == {0} \cup JobIds

\* the candidates the backend matches to a job: candidate j to job j
CandidatesFor(jobId) == IF jobId = 0 THEN JobIds ELSE {jobId}

\* the candidates view after its mount fetches were answered
VcmIdle ==
  /\ selectedJobId = 0
  /\ vendorCandidateMatches = CandidatesFor(0)
  /\ vcmReqs = <<>>
  /\ jobsInflight = 0
  /\ vcmFailed = FALSE

\* the candidate dashboard before it is mounted, and the initial state of
\* the slice
ProfileIdle ==
  /\ mountStep = 0
  /\ hasPurchasedVisibility = FALSE
  /\ srvProfile = <<>>
  /\ profile = <<>>
  /\ seen = [profileLoading |-> FALSE, profile |-> <<>>]
  /\ profileChecked = FALSE
  /\ profileOpen = FALSE
  /\ autoOpens = 0
  /\ decisions = 0

RestIdle == JobsIdle /\ DraftIdle /\ VcmIdle /\ ProfileIdle

\* the post-job page with nothing pasted and nothing parsed
NothingPasted ==
  /\ pasteText = <<>>
  /\ pasted = 0
  /\ parseResult = <<>>
  /\ form = EMPTY
  /\ parses = 0
  /\ success = FALSE

(* ------------------- the dashboards: initial state --------------------- *)

Plans == {"free", "pro"}

NAME_DEV == <<"d", "e", "v">>
NAME_OPS == <<"o", "p", "s">>
NAME_QA == <<"q", "a">>
MAIL_A == <<"a", "@", "x", ".", "i", "o">>
MAIL_B == <<"b", "@", "y", ".", "i", "o">>
CITY == <<"n", "y">>

\* what the backend matched: a low, a middle (no contact address) and a high
\* percentage
JobCatalog ==
  <<Job(1, NAME_DEV, MAIL_A, CITY, CONTRACT, C2C, REMOTE, <<>>, 20),
    Job(2, NAME_OPS, <<>>, <<>>, FULL_TIME, <<>>, <<>>, <<>>, 50),
    Job(3, NAME_QA, MAIL_B, CITY, FULL_TIME, W2, ONSITE, NAME_DEV, 80)>>

CandidateCatalog ==
  <<Candidate(1, NAME_DEV, MAIL_A, NAME_QA, CITY, 20),
    Candidate(2, NAME_OPS, <<>>, <<>>, <<>>, 50),
    Candidate(3, NAME_QA, MAIL_B, NAME_OPS, CITY, 80)>>

Listed == <<1, 2, 3>>

Served(dash, order) ==
  [k \in 1..3 |-> IF dash = "candidate" THEN JobCatalog[order[k]]
                  ELSE CandidateCatalog[order[k]]]

\* After the mount effects: the match list and the sent pokes are being
\* fetched (the legacy vendor dashboard fetches no pokes).
Init ==
  /\ props \in [dash : Dashboards, plan : Plans, hasPurchasedVisibility : BOOLEAN]
  /\ props.dash # "candidate" => props.hasPurchasedVisibility
  /\ props.dash = "candidate" => props.plan = "free"
  /\ now = 0
  /\ ticks = 0
  /\ srvMatches = Served(props.dash, Listed)
  /\ srvPokes = <<>>
  /\ matches = <<>>
  /\ loading = TRUE
  /\ pokesSent = <<>>
  /\ pokeLoading = FALSE
  /\ matchesInflight = 1
  /\ pokesFetches = IF props.dash = "vendorLegacy" THEN <<>> ELSE <<0>>
  /\ sendReqs = {}
  /\ sendCount = 0
  /\ rows = <<>>
  /\ searchText = <<>>
  /\ filterType = <<>>
  /\ filterSubType = <<>>
  /\ filterWorkMode = <<>>
  /\ membershipConfig = NoMembership
  /\ pokeEmailRow = <<>>
  /\ pokeEmailSentSuccess = FALSE
  /\ closeTimers = 0
  /\ localPokeCount = 0
  /\ lastCall = NoCall
  /\ TableMounted
  /\ ModalIdle
  /\ SliceIdle
  /\ RestIdle
  /\ csvOut = <<>>
  /\ NothingPasted

Next ==
  \/ \E i \in 1..3 : ClickPoke(i)
  \/ \E i \in 1..3 : ClickMail(i)
  \/ SidebarMailTemplate
  \/ CloseComposer
  \/ \E blank \in BOOLEAN : ClickSend(blank)
  \/ AutoClearSuccess
  \/ VendorCloseTimer
  \/ \E q \in sendReqs : SendFulfilled(q)
  \/ \E q \in sendReqs : SendRejected(q)
  \/ \E k \in 1..MaxInflight, n \in 0..MaxSends : PokesFetchFulfilled(k, n)
  \/ \E k \in 1..MaxInflight : PokesFetchRejected(k)
  \/ MatchesFulfilled
  \/ MatchesRejected
  \/ RefreshMatches
  \/ RefreshData
  \/ \E d \in TickSteps : Tick(d)

Spec == Init /\ [][Next]_vars


(* ================== properties of the poke and mail gating ============= *)

\* the row of the current row set that has this id
Called == RowOf(rows[CHOOSE i \in DOMAIN rows : rows[i].id = lastCall.id])
CalledIsRow == \E i \in DOMAIN rows : rows[i].id = lastCall.id

\* the sets and the map as the table receives them (absent props are empty)
TablePoked == IF PassesPokeProps THEN pokedRowIds ELSE {}
TableEmailed == IF PassesPokeProps THEN emailedRowIds ELSE {}
TablePokedAt(id) == IF PassesPokeProps THEN pokedAtMap(id) ELSE <<>>

\* C1: whenever the table has just invoked onPoke for a row, that row's id is
\* not in pokedRowIds, not in emailedRowIds, and the table is in vendor mode
\* or the row's matchPercentage is at least 25.
C1_PokeOnlyWhenEnabled ==
  lastCall.op = "onPoke" =>
    /\ CalledIsRow
    /\ lastCall.id \notin TablePoked
    /\ lastCall.id \notin TableEmailed
    /\ (isVendor \/ Called.matchPercentage >= POKE_MATCH_THRESHOLD)

\* onPoke has been invoked for a row of the candidate dashboard while another
\* row is emailed (and so has its poke action disabled)
C1_Witness ==
  /\ IsCandidateDash
  /\ lastCall.op = "onPoke"
  /\ emailedRowIds # {}
  /\ \E i \in DOMAIN rows : RowOf(rows[i]).matchPercentage < POKE_MATCH_THRESHOLD

\* C2: whenever the table has just invoked onPokeEmail for a row, that row's
\* id is not in emailedRowIds, the table is in vendor mode or the row's
\* matchPercentage is at least 75, and the row has no poke timestamp or at
\* least 24 hours have passed since it.
C2_MailOnlyWhenEnabled ==
  lastCall.op = "onPokeEmail" =>
    /\ CalledIsRow
    /\ lastCall.id \notin TableEmailed
    /\ (isVendor \/ Called.matchPercentage >= MAIL_MATCH_THRESHOLD)
    /\ \/ TablePokedAt(lastCall.id) = <<>>
       \/ now - TablePokedAt(lastCall.id)[1] >= POKE_COOLDOWN_MS

\* a non-vendor row at 80% that was poked is mailed once 24 hours have passed
C2_Witness ==
  /\ IsCandidateDash
  /\ lastCall.op = "onPokeEmail"
  /\ Called.matchPercentage = 80
  /\ pokedAtMap(lastCall.id) # <<>>
  /\ now - pokedAtMap(lastCall.id)[1] >= POKE_COOLDOWN_MS

\* C3: once a row's id is in emailedRowIds, after the next step of the
\* dashboard the poke action and the mail action of that row are disabled.
C3_EmailedIsTerminal ==
  [][\A i \in DOMAIN rows :
       alreadyEmailed(RowOf(rows[i])) =>
         \A j \in DOMAIN rows' :
           rows'[j].id = rows[i].id =>
             /\ (alreadyEmailed(RowOf(rows[j])))'
             /\ (pokeDisabled(RowOf(rows[j])))'
             /\ (mailDisabled(RowOf(rows[j])))']_vars

\* C4: in a vendor dashboard whose table shows its rows, no row has its poke
\* action disabled for a low match percentage, and none has its mail action
\* disabled for one.
C4_VendorsExempt ==
  (props.dash # "candidate" /\ TableShown) =>
    \A i \in DOMAIN rows :
      /\ ~pokeMatchTooLow(RowOf(rows[i]))
      /\ ~mailMatchTooLow(RowOf(rows[i]))

\* C5: whenever the candidate dashboard has just dispatched a mail-template
\* send, the job's matchPercentage is at least 75, the job is not emailed, and
\* the job was not poked less than 24 hours ago.
C5_MailSendOnlyWhenEligible ==
  (IsCandidateDash /\ lastCall.op = "onSend") =>
    /\ CalledIsRow
    /\ Called.matchPercentage >= MAIL_MATCH_THRESHOLD
    /\ lastCall.id \notin emailedRowIds
    /\ \/ pokedAtMap(lastCall.id) = <<>>
       \/ now - pokedAtMap(lastCall.id)[1] >= POKE_COOLDOWN_MS


(* ================= MatchDataTable: sorting and paging ================== *)

PAGE_SIZE_OPTIONS == {10, 25, 50, 100}
SortKeys == {"name", "company", "role", "type", "matchPercentage", "location"}
maxVisible == 5

Min(a, b) == IF a < b THEN a ELSE b
Max(a, b) == IF a > b THEN a ELSE b
Ceil(a, b) == (a + b - 1) \div b

\* String.prototype.localeCompare on the lower-cased texts the table sorts:
\* digits before letters, letters in alphabetical order, a prefix first
COLLATION == <<" ", "_", "-", ",", ".", "@", "\"", "$", "/">> \o DIGITS \o LOWER
WeightOf == [c \in Range(COLLATION) |-> IndexIn(COLLATION, c)]
Weight(c) == IF c \in DOMAIN WeightOf THEN WeightOf[c] ELSE Len(COLLATION) + 1
\* the collation weights of a text, character by character
Collate(s) == [k \in DOMAIN s |-> Weight(s[k])] \o <<>>

\* on the weights of two texts
localeCompare(a, b) ==
  LET diff == {k \in 1..Min(Len(a), Len(b)) : a[k] # b[k]} IN
  IF diff = {} THEN Len(a) - Len(b)
  ELSE LET k == CHOOSE x \in diff : \A y \in diff : x <= y IN a[k] - b[k]

\* sortValue(row, key): the number, or the lower-cased text of the field
sortValue(row, key) ==
  IF key = "matchPercentage" THEN row.matchPercentage
  ELSE ToLowerCase(row[key])

\* the comparator handed to Array.prototype.sort, on two sort values
Compare(av, bv, key, dir) ==
  LET cmp == IF key = "matchPercentage" THEN av - bv ELSE localeCompare(av, bv) IN
  IF dir = "asc" THEN cmp ELSE 0 - cmp

\* [...list].sort(comparator): a stable sort
StableSort(list, key, dir) ==
  LET vals == [i \in DOMAIN list |->
                 IF key = "matchPercentage" THEN sortValue(RowOf(list[i]), key)
                 ELSE Collate(sortValue(RowOf(list[i]), key))] \o <<>>
      Before(i, j) ==
        LET c == Compare(vals[i], vals[j], key, dir) IN c < 0 \/ (c = 0 /\ i < j)
      rank == [i \in DOMAIN list |->
                 Cardinality({j \in DOMAIN list : Before(j, i)}) + 1] \o <<>>
  IN [k \in DOMAIN list |-> list[CHOOSE i \in DOMAIN list : rank[i] = k]] \o <<>>

sortedRows == IF sortKey = <<>> THEN rows ELSE StableSort(rows, sortKey[1], sortDir)

\* Array.prototype.slice(from, to) with non-negative arguments
Slice(list, from, to) ==
  IF Min(from, Len(list)) >= Min(to, Len(list)) THEN <<>>
  ELSE SubSeq(list, Min(from, Len(list)) + 1, Min(to, Len(list)))

\* sortedRows.length is rows.length: sorting keeps every row
totalPages == Max(1, Ceil(Len(rows), pageSize))

\* the page with no clamp to the last page
rawPage == page

safePage == Min(page, totalPages - 1)

pageRows == Slice(sortedRows, safePage * pageSize, (safePage + 1) * pageSize)

\* the pagination bar is rendered
PagerShown == ~loading /\ Len(rows) > 0

\* the numbered buttons renderPageButtons draws
PageButtons ==
  LET start0 == Max(0, safePage - 2)
      end == Min(totalPages - 1, start0 + maxVisible - 1)
      start == IF end - start0 < maxVisible - 1 THEN Max(0, end - maxVisible + 1)
               ELSE start0 IN
  start..end

\* what a table action leaves alone
TableFrame ==
  /\ lastCall' = NoCall
  /\ csvOut' = <<>>
  /\ UNCHANGED <<props, clockVars, backendVars, storeVars, flightVars, filterVars,
                 composerVars, localPokeCount, parseVars, modalVars, sliceVars, restVars>>

\* user events are handled once the scheduled effects have run
TableIdle == ~resetPending

FirstPage ==
  /\ TableIdle /\ PagerShown /\ safePage # 0
  /\ page' = 0
  /\ UNCHANGED <<rows, pageSize, sortKey, sortDir, resetPending>>
  /\ TableFrame

PrevPage ==
  /\ TableIdle /\ PagerShown /\ safePage # 0
  /\ page' = Max(0, page - 1)
  /\ UNCHANGED <<rows, pageSize, sortKey, sortDir, resetPending>>
  /\ TableFrame

NextPage ==
  /\ TableIdle /\ PagerShown /\ safePage < totalPages - 1
  /\ page' = Min(totalPages - 1, page + 1)
  /\ UNCHANGED <<rows, pageSize, sortKey, sortDir, resetPending>>
  /\ TableFrame

LastPage ==
  /\ TableIdle /\ PagerShown /\ safePage < totalPages - 1
  /\ page' = totalPages - 1
  /\ UNCHANGED <<rows, pageSize, sortKey, sortDir, resetPending>>
  /\ TableFrame

GoToPage(pg) ==
  /\ TableIdle /\ PagerShown /\ pg \in PageButtons
  /\ page' = pg
  /\ UNCHANGED <<rows, pageSize, sortKey, sortDir, resetPending>>
  /\ TableFrame

\* a select that sets the page size and leaves the page to the clamp
SetPageSizeKeepsPage(n) ==
  /\ TableIdle /\ PagerShown /\ n \in PAGE_SIZE_OPTIONS /\ n # pageSize
  /\ pageSize' = n
  /\ UNCHANGED <<rows, page, sortKey, sortDir, resetPending>>
  /\ TableFrame

\* the "Per page" select: setPageSize(n); setPage(0)
SetPageSize(n) ==
  /\ TableIdle /\ PagerShown /\ n \in PAGE_SIZE_OPTIONS /\ n # pageSize
  /\ pageSize' = n
  /\ page' = 0
  /\ UNCHANGED <<rows, sortKey, sortDir, resetPending>>
  /\ TableFrame

\* a handleSort that leaves the direction alone when the column changes
handleSortKeepsDirection(key) ==
  /\ TableIdle
  /\ IF sortKey = <<key>>
     THEN /\ sortDir' = IF sortDir = "asc" THEN "desc" ELSE "asc"
          /\ UNCHANGED sortKey
     ELSE /\ sortKey' = <<key>>
          /\ UNCHANGED sortDir
  /\ resetPending' = TRUE
  /\ UNCHANGED <<rows, page, pageSize>>
  /\ TableFrame

\* a click on a sortable header; the effect on [rows.length, sortKey, sortDir]
\* is scheduled because one of the two always changes
handleSort(key) ==
  /\ TableIdle
  /\ IF sortKey = <<key>>
     THEN /\ sortDir' = IF sortDir = "asc" THEN "desc" ELSE "asc"
          /\ UNCHANGED sortKey
     ELSE /\ sortKey' = <<key>>
          /\ sortDir' = "asc"
  /\ resetPending' = TRUE
  /\ UNCHANGED <<rows, page, pageSize>>
  /\ TableFrame

\* an effect that only clamps the page to the pages there are
EffectClampPage ==
  /\ resetPending
  /\ page' = safePage
  /\ resetPending' = FALSE
  /\ UNCHANGED <<rows, pageSize, sortKey, sortDir>>
  /\ TableFrame

\* useEffect(() => { setPage(0); }, [rows.length, sortKey, sortDir])
EffectResetPage ==
  /\ resetPending
  /\ page' = 0
  /\ resetPending' = FALSE
  /\ UNCHANGED <<rows, pageSize, sortKey, sortDir>>
  /\ TableFrame


(* --------------------- the table on its own ---------------------------- *)

\* list lengths that give one page, a full page, two and three pages
RowCounts == {0, 1, 10, 11, MaxRows}

TableJob(k) ==
  Job(k, <<NAME_DEV, NAME_OPS, NAME_QA>>[(k % 3) + 1], MAIL_A,
      IF k % 2 = 0 THEN CITY ELSE <<>>, FULL_TIME, <<>>, REMOTE, <<>>, (k * 37) % 101)

TableJobs(n) == [k \in 1..n |-> TableJob(k)]

\* a candidate dashboard at rest, its table showing n unfiltered matches
InitTable ==
  /\ props = [dash |-> "candidate", plan |-> "free", hasPurchasedVisibility |-> TRUE]
  /\ now = 0
  /\ ticks = 0
  /\ \E n \in RowCounts : srvMatches = TableJobs(n)
  /\ matches = srvMatches
  /\ rows = srvMatches
  /\ srvPokes = <<>>
  /\ loading = FALSE
  /\ pokesSent = <<>>
  /\ pokeLoading = FALSE
  /\ matchesInflight = 0
  /\ pokesFetches = <<>>
  /\ sendReqs = {}
  /\ sendCount = 0
  /\ searchText = <<>>
  /\ filterType = <<>>
  /\ filterSubType = <<>>
  /\ filterWorkMode = <<>>
  /\ membershipConfig = NoMembership
  /\ pokeEmailRow = <<>>
  /\ pokeEmailSentSuccess = FALSE
  /\ closeTimers = 0
  /\ localPokeCount = 0
  /\ lastCall = NoCall
  /\ TableMounted
  /\ ModalIdle
  /\ SliceIdle
  /\ RestIdle
  /\ csvOut = <<>>
  /\ NothingPasted

\* the match list is fetched again and the backend now has n matches: the
\* fulfilled reducer replaces the list, the memo of rows runs, and the table's
\* effect is scheduled when the number of rows changed
RowsChange(n) ==
  /\ TableIdle
  /\ srvMatches' = TableJobs(n)
  /\ matches' = srvMatches'
  /\ UNCHANGED <<props, filterVars>>
  /\ rows' = ComputedRows'
  /\ resetPending' = (Len(rows') # Len(rows))
  /\ lastCall' = NoCall
  /\ csvOut' = <<>>
  /\ UNCHANGED <<clockVars, srvPokes, loading, pokesSent, pokeLoading, flightVars,
                 composerVars, localPokeCount, parseVars, modalVars, sliceVars, restVars,
                 page, pageSize, sortKey, sortDir>>

NextTable ==
  \/ FirstPage
  \/ PrevPage
  \/ NextPage
  \/ LastPage
  \/ \E pg \in 0..MaxRows : GoToPage(pg)
  \/ \E n \in PAGE_SIZE_OPTIONS : SetPageSize(n)
  \/ \E key \in SortKeys : handleSort(key)
  \/ EffectResetPage
  \/ \E n \in RowCounts : RowsChange(n)

SpecTable == InitTable /\ [][NextTable]_vars

\* C6: the visible page index is at least 0 and at most
\* max(0, ceil(total / pageSize) - 1), the visible slice is the rows
\* [p * pageSize, min((p + 1) * pageSize, total)) of the sorted set, and the
\* slice is not empty when there are rows.
C6_PageInRange ==
  LET sorted == sortedRows
      total == Len(sorted)
      p == safePage
      upto == Min((p + 1) * pageSize, total) IN
  /\ 0 <= p
  /\ p <= Max(0, Ceil(total, pageSize) - 1)
  /\ p * pageSize <= upto
  /\ pageRows = [k \in 1..(upto - p * pageSize) |-> sorted[p * pageSize + k]]
  /\ total > 0 => pageRows # <<>>

\* the stored page lies beyond the last page of a list that got shorter, and
\* the table shows the last page
C6_Witness ==
  /\ Len(rows) > 0
  /\ page > totalPages - 1
  /\ safePage = totalPages - 1
  /\ sortKey # <<>>


(* ================ the dashboards: filters and CSV export =============== *)

CANDIDATE_CSV_HEADERS ==
  <<<<"N", "a", "m", "e">>, <<"C", "o", "m", "p", "a", "n", "y">>, <<"E", "m", "a", "i", "l">>, <<"P", "h", "o", "n", "e">>,
    <<"R", "o", "l", "e">>, <<"T", "y", "p", "e">>, <<"M", "o", "d", "e">>, <<"P", "a", "y", "/", "H", "r">>, <<"E", "x", "p">>, <<"M", "a", "t", "c", "h", "%">>, <<"L", "o", "c", "a", "t", "i", "o", "n">>>>
VENDOR_CSV_HEADERS ==
  <<<<"N", "a", "m", "e">>, <<"C", "o", "m", "p", "a", "n", "y">>, <<"E", "m", "a", "i", "l">>, <<"P", "h", "o", "n", "e">>,
    <<"R", "o", "l", "e">>, <<"T", "y", "p", "e">>, <<"P", "a", "y", "/", "H", "r">>, <<"E", "x", "p">>, <<"M", "a", "t", "c", "h", "%">>, <<"L", "o", "c", "a", "t", "i", "o", "n">>>>

RECURSIVE Join(_, _)
\* Array.prototype.join
Join(parts, sep) ==
  IF parts = <<>> THEN <<>>
  ELSE IF Len(parts) = 1 THEN parts[1]
  ELSE parts[1] \o sep \o Join(Tail(parts), sep)

RECURSIVE DoubleQuotes(_)
\* v.replace(/"/g, '""')
DoubleQuotes(v) ==
  IF v = <<>> THEN <<>>
  ELSE (IF Head(v) = "\"" THEN <<"\"", "\"">> ELSE <<Head(v)>>) \o DoubleQuotes(Tail(v))

\* `"${String(v ?? "").replace(/"/g, '""')}"`
CsvField(v) == <<"\"">> \o DoubleQuotes(v) \o <<"\"">>

\* the fields of one data line, in the order of the headers
CsvCells(r) ==
  IF IsCandidateDash
  THEN <<r.name, r.company, r.email, r.phone, r.role, r.type, OrElse(r.workMode, DASH),
         r.payPerHour, r.experience, NumberToString(r.matchPercentage), r.location>>
  ELSE <<r.name, r.company, r.email, r.phone, r.role, r.type,
         r.payPerHour, r.experience, NumberToString(r.matchPercentage), r.location>>

CsvLine(r) ==
  Join([k \in DOMAIN CsvCells(r) |-> CsvField(CsvCells(r)[k])] \o <<>>, <<",">>)

\* the lines of the file for a list of records: the header, then a line each
CsvLines(list) ==
  <<Join(IF IsCandidateDash THEN CANDIDATE_CSV_HEADERS ELSE VENDOR_CSV_HEADERS, <<",">>)>>
  \o ([i \in DOMAIN list |-> CsvLine(RowOf(list[i]))] \o <<>>)

\* what a dashboard action outside the table leaves alone
DashFrame ==
  /\ lastCall' = NoCall
  /\ UNCHANGED <<props, clockVars, backendVars, storeVars, flightVars, composerVars,
                 localPokeCount, parseVars, modalVars, sliceVars, restVars, page, pageSize,
                 sortKey, sortDir>>

\* the dashboard renders again after a state change: the memo of rows runs
\* (its dependencies changed), and the table schedules its effect when the
\* number of rows changed
RowsRecomputed ==
  /\ rows' = ComputedRows'
  /\ resetPending' = (resetPending \/ Len(rows') # Len(rows))

handleDownloadCSV ==
  /\ TableIdle
  /\ Unlocked
  /\ csvOut' = <<CsvLines(rows)>>
  /\ UNCHANGED <<rows, filterVars, resetPending>>
  /\ DashFrame


(* ------------------------- the filter controls ------------------------- *)

SubTypesOf(type) ==
  CASE type = CONTRACT -> Range(CONTRACT_SUB_TYPES)
    [] type = FULL_TIME -> Range(FULL_TIME_SUB_TYPES)
    [] OTHER -> {}

\* the search box: setSearchText(e.target.value)
SetSearchText(q) ==
  /\ TableIdle /\ Unlocked
  /\ q # searchText
  /\ searchText' = q
  /\ UNCHANGED <<filterType, filterSubType, filterWorkMode, membershipConfig>>
  /\ csvOut' = <<>>
  /\ DashFrame
  /\ RowsRecomputed

\* the type select of the candidate dashboard, which offers the types shown
SetFilterType(t) ==
  /\ TableIdle /\ Unlocked /\ IsCandidateDash
  /\ t = <<>> \/ (t \in Range(JOB_TYPES) /\ showType(t))
  /\ filterType' = t
  /\ filterSubType' = <<>>
  /\ UNCHANGED <<searchText, filterWorkMode, membershipConfig>>
  /\ csvOut' = <<>>
  /\ DashFrame
  /\ RowsRecomputed

\* the sub-type select, rendered for contract and full_time
SetFilterSubType(st) ==
  /\ TableIdle /\ Unlocked /\ IsCandidateDash
  /\ filterType \in {CONTRACT, FULL_TIME}
  /\ st = <<>> \/ (st \in SubTypesOf(filterType) /\ showSubtype(filterType, st))
  /\ filterSubType' = st
  /\ UNCHANGED <<searchText, filterType, filterWorkMode, membershipConfig>>
  /\ csvOut' = <<>>
  /\ DashFrame
  /\ RowsRecomputed

\* an item of the sidebar group of job types (jobTypeNavItems)
NavFilter(t, st) ==
  /\ ~ComposerOpen /\ ~resetPending /\ IsCandidateDash
  /\ \/ t = <<>> /\ st = <<>>
     \/ /\ t \in Range(JOB_TYPES) /\ showType(t)
        /\ st = <<>> \/ (st \in SubTypesOf(t) /\ showSubtype(t, st))
  /\ filterType' = t
  /\ filterSubType' = st
  /\ UNCHANGED <<searchText, filterWorkMode, membershipConfig>>
  /\ csvOut' = <<>>
  /\ DashFrame
  /\ RowsRecomputed

\* the work-mode select
SetFilterWorkMode(wm) ==
  /\ TableIdle /\ Unlocked /\ IsCandidateDash
  /\ wm = <<>> \/ wm \in Range(WORK_MODES)
  /\ filterWorkMode' = wm
  /\ UNCHANGED <<searchText, filterType, filterSubType, membershipConfig>>
  /\ csvOut' = <<>>
  /\ DashFrame
  /\ RowsRecomputed

\* the Reset button of the toolbar
ResetFilters ==
  /\ TableIdle /\ Unlocked
  /\ searchText' = <<>>
  /\ filterType' = <<>>
  /\ filterSubType' = <<>>
  /\ filterWorkMode' = <<>>
  /\ UNCHANGED membershipConfig
  /\ csvOut' = <<>>
  /\ DashFrame
  /\ RowsRecomputed

\* The host renders the candidate dashboard with another membershipConfig.
\* The dependency list of the memo of rows does not name it, so the memo keeps
\* the row set it has.
MembershipChange(cfg) ==
  /\ ~resetPending /\ IsCandidateDash
  /\ cfg # membershipConfig
  /\ membershipConfig' = cfg
  /\ UNCHANGED <<searchText, filterType, filterSubType, filterWorkMode, rows, resetPending>>
  /\ csvOut' = <<>>
  /\ DashFrame

(* ------------------ the dashboards with their filters ------------------ *)

TITLE_DEV == <<"D", "e", "v">>
TITLE_QUOTED == <<"q", "\"", "a">>
NAME_ANN == <<"A", "n", "n">>

RowsJobs ==
  <<Job(1, TITLE_DEV, MAIL_A, CITY, CONTRACT, C2C, REMOTE, <<>>, 70),
    Job(2, NAME_OPS, <<>>, <<>>, CONTRACT, <<>>, <<>>, <<>>, 50),
    Job(3, TITLE_QUOTED, MAIL_B, CITY, FULL_TIME, W2, ONSITE, NAME_ANN, 80),
    Job(4, NAME_DEV, MAIL_B, <<>>, PART_TIME, <<>>, HYBRID, <<>>, 60)>>

RowsCandidates ==
  <<Candidate(1, NAME_ANN, MAIL_A, TITLE_DEV, CITY, 70),
    Candidate(2, NAME_OPS, <<>>, <<>>, <<>>, 50),
    Candidate(3, TITLE_QUOTED, MAIL_B, NAME_OPS, CITY, 80)>>

Queries == {<<>>, <<" ", "D", "E", "V", " ">>, <<"a", "n", "n">>, <<"n", "y">>}

\* membershipConfig: null, {}, {contract: ["c2c"]}, {full_time: []}
MembershipConfigs ==
  {NoMembership,
   [present |-> TRUE, subs |-> <<>>],
   [present |-> TRUE, subs |-> (CONTRACT :> {C2C})],
   [present |-> TRUE, subs |-> (FULL_TIME :> {})]}

\* a dashboard at rest with its match list loaded and no filter set
InitRows ==
  /\ props \in [dash : {"candidate", "vendor"}, plan : {"pro"},
                hasPurchasedVisibility : {TRUE}]
  /\ now = 0
  /\ ticks = 0
  /\ srvMatches = IF props.dash = "candidate" THEN RowsJobs ELSE RowsCandidates
  /\ matches = srvMatches
  /\ membershipConfig \in MembershipConfigs
  /\ props.dash # "candidate" => membershipConfig = NoMembership
  /\ searchText = <<>>
  /\ filterType = <<>>
  /\ filterSubType = <<>>
  /\ filterWorkMode = <<>>
  /\ rows = ComputedRows
  /\ srvPokes = <<>>
  /\ loading = FALSE
  /\ pokesSent = <<>>
  /\ pokeLoading = FALSE
  /\ matchesInflight = 0
  /\ pokesFetches = <<>>
  /\ sendReqs = {}
  /\ sendCount = 0
  /\ pokeEmailRow = <<>>
  /\ pokeEmailSentSuccess = FALSE
  /\ closeTimers = 0
  /\ localPokeCount = 0
  /\ lastCall = NoCall
  /\ TableMounted
  /\ ModalIdle
  /\ SliceIdle
  /\ RestIdle
  /\ csvOut = <<>>
  /\ NothingPasted

RowsSortKeys == {"matchPercentage", "name"}

NextRows ==
  \/ \E q \in Queries : SetSearchText(q)
  \/ \E t \in Range(JOB_TYPES) \cup {<<>>} : SetFilterType(t)
  \/ \E st \in SubTypesOf(CONTRACT) \cup SubTypesOf(FULL_TIME) \cup {<<>>} :
       SetFilterSubType(st)
  \/ \E t \in Range(JOB_TYPES) \cup {<<>>},
        st \in SubTypesOf(CONTRACT) \cup SubTypesOf(FULL_TIME) \cup {<<>>} :
       NavFilter(t, st)
  \/ \E wm \in Range(WORK_MODES) \cup {<<>>} : SetFilterWorkMode(wm)
  \/ ResetFilters
  \/ \E cfg \in MembershipConfigs : MembershipChange(cfg)
  \/ \E key \in RowsSortKeys : handleSort(key)
  \/ EffectResetPage
  \/ handleDownloadCSV

SpecRows == InitRows /\ [][NextRows]_vars


(* ============== properties of the row set and the CSV export =========== *)

InRowSet(rec) == \E j \in DOMAIN rows : rows[j].id = rec.id
Query == ToLowerCase(Trim(searchText))
TextIn(field) == Includes(ToLowerCase(field), Query)

\* C7: the file a download produces is the header line followed by one line
\* for each row of the filtered set in the order the table's sort gives them,
\* each field in double quotes with embedded double quotes doubled.
C7_CsvIsSortedRows ==
  csvOut # <<>> =>
    /\ Len(csvOut[1]) = 1 + Len(rows)
    /\ csvOut[1] = CsvLines(sortedRows)

\* the four filters as the claim words them: exact type, exact sub-type, exact
\* work mode, and the query in the name, role, location or email
ClaimedPass(rec) ==
  IF IsCandidateDash
  THEN /\ filterType # <<>> => rec.job_type = filterType
       /\ filterSubType # <<>> => rec.job_sub_type = filterSubType
       /\ filterWorkMode # <<>> => rec.work_mode = filterWorkMode
       /\ \/ Query = <<>>
          \/ TextIn(rec.recruiter_name) \/ TextIn(rec.title)
          \/ TextIn(rec.location) \/ TextIn(rec.vendor_email)
  ELSE \/ Query = <<>>
       \/ TextIn(rec.name) \/ TextIn(rec.current_role)
       \/ TextIn(rec.location) \/ TextIn(rec.email)

\* C8 as claimed: a record of the match list is in the row set exactly when it
\* passes the type, sub-type, work-mode and free-text filters, the free text
\* searching name, role, location and email.
C8_RowSetIsFilterResult ==
  \A i \in DOMAIN matches : InRowSet(matches[i]) <=> ClaimedPass(matches[i])

\* the membership gate: the type is in the config, and a sub-type, when the
\* job has one, is allowed for the type
InsideConfig(rec) ==
  \/ ~hasMembership
  \/ /\ rec.job_type \in DOMAIN membershipConfig.subs
     /\ \/ rec.job_sub_type = <<>>
        \/ membershipConfig.subs[rec.job_type] = {}
        \/ rec.job_sub_type \in membershipConfig.subs[rec.job_type]

\* the filters as amended: the candidate dashboard applies the membership gate
\* and searches title, location and vendor e-mail; the vendor dashboard has
\* the free-text filter only
AmendedPass(rec) ==
  IF IsCandidateDash
  THEN /\ InsideConfig(rec)
       /\ filterType # <<>> => rec.job_type = filterType
       /\ filterSubType # <<>> => rec.job_sub_type = filterSubType
       /\ filterWorkMode # <<>> => rec.work_mode = filterWorkMode
       /\ \/ Query = <<>>
          \/ TextIn(rec.title) \/ TextIn(rec.location) \/ TextIn(rec.vendor_email)
  ELSE \/ Query = <<>>
       \/ TextIn(rec.name) \/ TextIn(rec.current_role)
       \/ TextIn(rec.location) \/ TextIn(rec.email)

RowSetAsAmended ==
  /\ \A i \in DOMAIN matches : InRowSet(matches[i]) <=> AmendedPass(matches[i])
  /\ \A j \in DOMAIN rows : \E i \in DOMAIN matches : matches[i] = rows[j]

MemoDeps == <<matches, searchText, filterType, filterSubType, filterWorkMode>>

\* C8 as amended: whenever the match list, a filter or the search text
\* changes, the row set becomes exactly the records of the list that pass the
\* membership gate (candidate dashboard), the exact type, sub-type and
\* work-mode filters, and the free-text filter on title, location and vendor
\* e-mail (candidate dashboard) or name, role, location and e-mail (vendor
\* dashboard).
C8_RowSetOnFilterChange == [][MemoDeps' # MemoDeps => RowSetAsAmended']_vars

\* a query and a type filter are set in the candidate dashboard and the row
\* set holds some of the matches, not all
C8_Witness ==
  /\ IsCandidateDash
  /\ Query # <<>>
  /\ filterType # <<>>
  /\ Len(rows) > 0
  /\ Len(rows) < Len(matches)

\* C9: in the candidate dashboard, with a non-empty membership config no job
\* outside the config is in the row set or in a downloaded CSV; with the config
\* null or empty every job that passes the filters is in the row set.
C9_MembershipGate ==
  IsCandidateDash =>
    /\ \A j \in DOMAIN rows : InsideConfig(rows[j])
    /\ csvOut # <<>> => Len(csvOut[1]) = 1 + Len(SelectSeq(rows, InsideConfig))
    /\ ~hasMembership => \A i \in DOMAIN matches : AmendedPass(matches[i]) => InRowSet(matches[i])


(* ===================== post-job page: parseJobText ===================== *)

IsDigit(c) == c \in Range(DIGITS)

RECURSIVE SkipWhile(_, _, _)
\* the index after the longest run of characters of the set, from index i
SkipWhile(t, i, set) ==
  IF i <= Len(t) /\ t[i] \in set THEN SkipWhile(t, i + 1, set) ELSE i

\* \s* and \d* of a regular expression
SkipSpace(t, i) == SkipWhile(t, i, WHITESPACE)
SkipDigits(t, i) == SkipWhile(t, i, Range(DIGITS))
At(t, i) == IF i \in DOMAIN t THEN t[i] ELSE ""

\* the literal word (given in lower case) at index i, ignoring case
WordAt(t, i, word) ==
  /\ i + Len(word) - 1 <= Len(t)
  /\ \A k \in DOMAIN word : ToLowerChar(t[i + k - 1]) = word[k]

\* /\$\s*(\d+(?:\.\d+)?)\s*(?:\/\s*hr|\/\s*hour|per\s+hour)/i anchored at i:
\* <<>> or <<first, last>> of group 1
PayAt(t, i) ==
  LET a == SkipSpace(t, i + 1)
      b == SkipDigits(t, a)
      c == IF At(t, b) = "." /\ SkipDigits(t, b + 1) > b + 1
           THEN SkipDigits(t, b + 1) ELSE b
      d == SkipSpace(t, c)
      e == SkipSpace(t, d + 1)
      f == SkipSpace(t, d + 3)
      unit == \/ At(t, d) = "/" /\ (WordAt(t, e, <<"h", "r">>)
                                    \/ WordAt(t, e, <<"h", "o", "u", "r">>))
              \/ /\ WordAt(t, d, <<"p", "e", "r">>)
                 /\ f > d + 3
                 /\ WordAt(t, f, <<"h", "o", "u", "r">>)
  IN IF At(t, i) = "$" /\ b > a /\ unit THEN <<a, c - 1>> ELSE <<>>

\* the hyphen and the en dash of the salary pattern
DASHES == {"-", "~"}

\* /\$\s*(\d[\d,]*)\s*[kK]?\s*[-~]\s*\$?\s*(\d[\d,]*)\s*[kK]?/ anchored at
\* i, "~" standing for the en dash: <<>> or <<first1, last1, first2, last2>>
\* of groups 1 and 2
SalAt(t, i) ==
  LET numeric == Range(DIGITS) \cup {","}
      a == SkipSpace(t, i + 1)
      b == SkipWhile(t, a + 1, numeric)
      c == SkipSpace(t, b)
      d == SkipSpace(t, IF At(t, c) \in {"k", "K"} THEN c + 1 ELSE c)
      e == SkipSpace(t, d + 1)
      f == SkipSpace(t, IF At(t, e) = "$" THEN e + 1 ELSE e)
      g == SkipWhile(t, f + 1, numeric)
  IN IF /\ At(t, i) = "$"
        /\ IsDigit(At(t, a))
        /\ At(t, d) \in DASHES
        /\ IsDigit(At(t, f))
     THEN <<a, b - 1, f, g - 1>> ELSE <<>>

\* String.prototype.match without the g flag takes the leftmost match
Leftmost(hits) == CHOOSE i \in hits : \A j \in hits : i <= j

RECURSIVE DigitsToInt(_)
\* the value of a run of decimal digits
DigitsToInt(s) ==
  IF s = <<>> THEN 0
  ELSE 10 * DigitsToInt(SubSeq(s, 1, Len(s) - 1))
       + (IndexIn(DIGITS, s[Len(s)]) - 1)

RECURSIVE StripZeros(_)
StripZeros(s) ==
  IF s # <<>> /\ s[Len(s)] = "0" THEN StripZeros(SubSeq(s, 1, Len(s) - 1))
  ELSE s

\* a number n / 10^e with no trailing zero in its e decimals
Num(n) == [n |-> n, e |-> 0]

\* parseFloat of digits with an optional ".digits"
parseFloat(s) ==
  LET dots == {i \in DOMAIN s : s[i] = "."}
      dot  == IF dots = {} THEN Len(s) + 1 ELSE CHOOSE i \in dots : TRUE
      frac == StripZeros(SubSeq(s, dot + 1, Len(s)))
  IN [n |-> DigitsToInt(SubSeq(s, 1, dot - 1) \o frac), e |-> Len(frac)]

\* String.prototype.replace(/x/g, '')
RemoveAll(s, x) == SelectSeq(s, LAMBDA c : c # x)

RECURSIVE SplitLines(_)
\* String.prototype.split('\n')
SplitLines(text) ==
  LET cut == {i \in DOMAIN text : text[i] = "\n"} IN
  IF cut = {} THEN <<text>>
  ELSE LET first == Leftmost(cut) IN
       <<SubSeq(text, 1, first - 1)>>
         \o SplitLines(SubSeq(text, first + 1, Len(text)))

\* lines = text.split('\n').map((l) => l.trim()); nonEmpty = lines.filter(Boolean)
nonEmptyLines(text) ==
  LET lines == SplitLines(text)
      trimmed == [i \in DOMAIN lines |-> Trim(lines[i])] \o <<>>
  IN SelectSeq(trimmed, LAMBDA l : l # <<>>)

\* \w and \b of a regular expression
IsWordChar(c) == IsAlnum(c) \/ c = "_"
Boundary(t, i) == IsWordChar(At(t, i - 1)) # IsWordChar(At(t, i))

\* the literal at index i
FoundAt(t, i, word) ==
  i + Len(word) - 1 <= Len(t) /\ SubSeq(t, i, i + Len(word) - 1) = word

\* /\bword\b/.test(t)
HasWord(t, word) ==
  \E i \in DOMAIN t :
    FoundAt(t, i, word) /\ Boundary(t, i) /\ Boundary(t, i + Len(word))

\* [- ] of the patterns
SEPARATORS == {<<"-">>, <<" ">>}

\* the tests of the job type rules, on the lower-cased text
IsC2C(lc) ==
  \/ HasWord(lc, Chars("c2c"))
  \/ \E a, b \in SEPARATORS :
       Includes(lc, Chars("corp") \o a \o Chars("to") \o b \o Chars("corp"))
IsC2H(lc) ==
  \/ HasWord(lc, Chars("c2h"))
  \/ \E a, b \in SEPARATORS :
       Includes(lc, Chars("contract") \o a \o Chars("to") \o b \o Chars("hire"))
Is1099(lc) == HasWord(lc, Chars("1099"))
IsW2(lc) == HasWord(lc, Chars("w2"))
IsContract(lc) == HasWord(lc, Chars("contract"))
IsContractor(lc) == HasWord(lc, Chars("contractor"))
IsFullTime(lc) ==
  \E a \in SEPARATORS : HasWord(lc, Chars("full") \o a \o Chars("time"))
IsPartTime(lc) ==
  \E a \in SEPARATORS : HasWord(lc, Chars("part") \o a \o Chars("time"))
IsDirectHire(lc) == HasWord(lc, Chars("direct hire"))
IsSalary(lc) == HasWord(lc, Chars("salary"))

\* a job type and sub-type, <<>> being undefined
Kind(type, sub) == [job_type |-> type, job_sub_type |-> sub]

\* the job type rules with full-time tested before the contract rules
jobKindFullTimeFirst(lc) ==
  IF IsFullTime(lc)
  THEN Kind(<<FULL_TIME>>,
            IF IsDirectHire(lc) THEN <<DIRECT_HIRE>>
            ELSE IF IsSalary(lc) THEN <<SALARY>>
            ELSE IF IsW2(lc) THEN <<W2>> ELSE <<>>)
  ELSE IF IsC2C(lc) THEN Kind(<<CONTRACT>>, <<C2C>>)
  ELSE IF IsC2H(lc) THEN Kind(<<CONTRACT>>, <<C2H>>)
  ELSE IF Is1099(lc) THEN Kind(<<CONTRACT>>, <<T1099>>)
  ELSE IF IsW2(lc) /\ IsContract(lc) THEN Kind(<<CONTRACT>>, <<W2>>)
  ELSE IF IsContract(lc) \/ IsContractor(lc) THEN Kind(<<CONTRACT>>, <<>>)
  ELSE IF IsPartTime(lc) THEN Kind(<<PART_TIME>>, <<>>)
  ELSE Kind(<<>>, <<>>)

\* the job type and sub-type rules of parseJobText
jobKind(lc) ==
  IF IsC2C(lc) THEN Kind(<<CONTRACT>>, <<C2C>>)
  ELSE IF IsC2H(lc) THEN Kind(<<CONTRACT>>, <<C2H>>)
  ELSE IF Is1099(lc) THEN Kind(<<CONTRACT>>, <<T1099>>)
  ELSE IF IsW2(lc) /\ IsContract(lc) THEN Kind(<<CONTRACT>>, <<W2>>)
  ELSE IF IsContract(lc) \/ IsContractor(lc) THEN Kind(<<CONTRACT>>, <<>>)
  ELSE IF IsFullTime(lc)
  THEN Kind(<<FULL_TIME>>,
            IF IsDirectHire(lc) THEN <<DIRECT_HIRE>>
            ELSE IF IsSalary(lc) THEN <<SALARY>>
            ELSE IF IsW2(lc) THEN <<W2>> ELSE <<>>)
  ELSE IF IsPartTime(lc) THEN Kind(<<PART_TIME>>, <<>>)
  ELSE Kind(<<>>, <<>>)

\* the work mode rules of parseJobText: <<>> or <<mode>>
workMode(lc) ==
  IF HasWord(lc, Chars("remote")) THEN <<REMOTE>>
  ELSE IF HasWord(lc, Chars("hybrid")) THEN <<HYBRID>>
  ELSE IF \E w \in {Chars("on-site"), Chars("on site"), Chars("onsite"),
                    Chars("in-office"), Chars("in office")} : HasWord(lc, w)
  THEN <<ONSITE>>
  ELSE <<>>

\* where ^ of a pattern with the m flag matches
LineStarts(t) == {i \in DOMAIN t : i = 1 \/ t[i - 1] = "\n"}

\* /^(?:location|city|work\s+location)\s*:\s*(.+)/im anchored at i: <<>> or
\* <<first, last>> of group 1. The \s* after the colon runs over line ends as
\* far as a character other than a line end follows; at the end of the text
\* it gives back white space for the group.
LabelAt(t, i) ==
  LET work == SkipSpace(t, i + 4)
      name == IF WordAt(t, i, Chars("location")) THEN i + 8
              ELSE IF WordAt(t, i, Chars("city")) THEN i + 4
              ELSE IF /\ WordAt(t, i, Chars("work"))
                      /\ work > i + 4
                      /\ WordAt(t, work, Chars("location"))
              THEN work + 8
              ELSE 0
      colon == SkipSpace(t, name)
      value == SkipSpace(t, colon + 1)
      blanks == {k \in (colon + 1)..Len(t) : t[k] # "\n"}
      lineEnd == SkipWhile(t, value, Range(t) \ {"\n"}) - 1
  IN IF name = 0 \/ At(t, colon) # ":" THEN <<>>
     ELSE IF value <= Len(t) THEN <<value, lineEnd>>
     ELSE IF blanks = {} THEN <<>>
     ELSE LET last == CHOOSE k \in blanks : \A j \in blanks : j <= k IN
          <<last, last>>

locLabel(text) ==
  LET hits == {i \in LineStarts(text) : LabelAt(text, i) # <<>>} IN
  IF hits = {} THEN <<>> ELSE LabelAt(text, Leftmost(hits))

\* /^(remote|hybrid|on-?site|onsite)/i.test(ln)
StartsWithMode(ln) ==
  \E w \in {Chars("remote"), Chars("hybrid"), Chars("on-site"), Chars("onsite")} :
    WordAt(ln, 1, w)

\* /,/.test(ln) && ln.length < 40 && !/\$/.test(ln) && !/years?/i.test(ln)
LooksLikePlace(ln) ==
  /\ "," \in Range(ln)
  /\ Len(ln) < 40
  /\ "$" \notin Range(ln)
  /\ ~Includes(ToLowerCase(ln), Chars("year"))

\* the scan of the non-empty lines after the first: <<>> or <<line>>
scanLocation(nonEmpty) ==
  LET hits == {i \in 2..Min(4, Len(nonEmpty)) :
                 StartsWithMode(nonEmpty[i]) \/ LooksLikePlace(nonEmpty[i])}
  IN IF hits = {} THEN <<>> ELSE <<nonEmpty[Leftmost(hits)]>>

\* the location rules of parseJobText: <<>> or <<location>>
locationOf(text, mode) ==
  LET label == locLabel(text)
      scan  == scanLocation(nonEmptyLines(text))
  IN IF label # <<>> THEN <<Trim(SubSeq(text, label[1], label[2]))>>
     ELSE IF scan # <<>> THEN scan
     ELSE IF mode = <<REMOTE>> THEN <<Chars("Remote")>>
     ELSE <<>>

\* /(\d+)\s*\+?\s*years?\s*(of\s+)?(hands-on\s+)?(experience|exp)/i anchored
\* at i: <<>> or <<first, last>> of group 1
ExpAt(t, i) ==
  LET b == SkipDigits(t, i)
      c == SkipSpace(t, b)
      d == SkipSpace(t, IF At(t, c) = "+" THEN c + 1 ELSE c)
      e == SkipSpace(t, IF ToLowerChar(At(t, d + 4)) = "s" THEN d + 5 ELSE d + 4)
      f == IF WordAt(t, e, Chars("of")) /\ SkipSpace(t, e + 2) > e + 2
           THEN SkipSpace(t, e + 2) ELSE e
      g == IF WordAt(t, f, Chars("hands-on")) /\ SkipSpace(t, f + 8) > f + 8
           THEN SkipSpace(t, f + 8) ELSE f
  IN IF b > i /\ WordAt(t, d, Chars("year")) /\ WordAt(t, g, Chars("exp"))
     THEN <<i, b - 1>> ELSE <<>>

\* the experience rule of parseJobText: <<>> or <<years>>
experienceOf(text) ==
  LET hits == {i \in DOMAIN text : ExpAt(text, i) # <<>>} IN
  IF hits = {} THEN <<>>
  ELSE LET m == ExpAt(text, Leftmost(hits)) IN
       <<DigitsToInt(SubSeq(text, m[1], m[2]))>>

\* the entries of SKILL_DICT the texts speak of, in the order of the dictionary
SKILL_DICT ==
  <<Chars("Java"), Chars("Spring Boot"), Chars("Spring"), Chars("Kafka"),
    Chars("C++")>>

\* the test of one dictionary entry: a substring for an entry with a blank,
\* a whole word otherwise, both ignoring case
HasSkill(text, skill) ==
  IF " " \in Range(skill)
  THEN Includes(ToLowerCase(text), ToLowerCase(skill))
  ELSE HasWord(ToLowerCase(text), ToLowerCase(skill))

skillsOf(text) == SelectSeq(SKILL_DICT, LAMBDA skill : HasSkill(text, skill))

payMatch(raw) ==
  LET text == RemoveAll(raw, "\r")
      hits == {i \in DOMAIN text : PayAt(text, i) # <<>>}
  IN IF hits = {} THEN <<>> ELSE PayAt(text, Leftmost(hits))

salMatch(raw) ==
  LET text == RemoveAll(raw, "\r")
      hits == {i \in DOMAIN text : SalAt(text, i) # <<>>}
  IN IF hits = {} THEN <<>> ELSE SalAt(text, Leftmost(hits))

\* the salary range with the thousands read below 1000 only
SalaryRangeBelowThousand(text, m) ==
  LET lo == DigitsToInt(RemoveAll(SubSeq(text, m[1], m[2]), ","))
      hi == DigitsToInt(RemoveAll(SubSeq(text, m[3], m[4]), ","))
  IN IF lo < 1000
     THEN [salary_min |-> <<Num(lo * 1000)>>, salary_max |-> <<Num(hi * 1000)>>]
     ELSE [salary_min |-> <<Num(lo)>>, salary_max |-> <<Num(hi)>>]

\* the salary range of a match of the salary pattern
SalaryRange(text, m) ==
  LET lo == DigitsToInt(RemoveAll(SubSeq(text, m[1], m[2]), ","))
      hi == DigitsToInt(RemoveAll(SubSeq(text, m[3], m[4]), ","))
  IN IF lo < 2000
     THEN [salary_min |-> <<Num(lo * 1000)>>, salary_max |-> <<Num(hi * 1000)>>]
     ELSE [salary_min |-> <<Num(lo)>>, salary_max |-> <<Num(hi)>>]

\* the pay rate and the salary range, the range kept beside an hourly pay
payAndSalaryAlways(raw) ==
  LET text == RemoveAll(raw, "\r")
      pm   == payMatch(raw)
      sm   == salMatch(raw)
      range == SalaryRange(text, sm)
  IN [pay_per_hour |-> IF pm # <<>>
                       THEN <<parseFloat(SubSeq(text, pm[1], pm[2]))>>
                       ELSE <<>>,
      salary_min |-> IF sm # <<>> THEN range.salary_min ELSE <<>>,
      salary_max |-> IF sm # <<>> THEN range.salary_max ELSE <<>>]

\* the pay rate and the salary range of parseJobText
payAndSalary(raw) ==
  LET text == RemoveAll(raw, "\r")
      pm   == payMatch(raw)
      sm   == salMatch(raw)
      range == SalaryRange(text, sm)
  IN [pay_per_hour |-> IF pm # <<>>
                       THEN <<parseFloat(SubSeq(text, pm[1], pm[2]))>>
                       ELSE <<>>,
      salary_min |-> IF sm # <<>> /\ pm = <<>> THEN range.salary_min ELSE <<>>,
      salary_max |-> IF sm # <<>> /\ pm = <<>> THEN range.salary_max ELSE <<>>]

\* the description with the carriage returns dropped before the trim
descriptionOfText(raw) == Trim(RemoveAll(raw, "\r"))

\* result.description = raw.trim()
descriptionOf(raw) == Trim(raw)

\* the ParsedJob of a text; an undefined field is <<>>, a set one <<value>>
\* (the three amounts are <<number>>)
parseJobText(raw) ==
  LET text == RemoveAll(raw, "\r")
      nonEmpty == nonEmptyLines(text)
      lc == ToLowerCase(text)
      pay == payAndSalary(raw)
      kind == jobKind(lc)
      mode == workMode(lc)
  IN [title |-> IF nonEmpty # <<>> THEN <<nonEmpty[1]>> ELSE <<>>,
      pay_per_hour |-> pay.pay_per_hour,
      salary_min |-> pay.salary_min,
      salary_max |-> pay.salary_max,
      job_type |-> kind.job_type,
      job_sub_type |-> kind.job_sub_type,
      work_mode |-> mode,
      location |-> locationOf(text, mode),
      experience_required |-> experienceOf(text),
      skills_required |-> <<skillsOf(text)>>,
      description |-> <<descriptionOf(raw)>>]

\* every action of the post-job page leaves the dashboards alone
ParseFrame ==
  UNCHANGED <<props, clockVars, backendVars, storeVars, flightVars, rows,
              filterVars, membershipConfig, composerVars, localPokeCount,
              lastCall, tableVars, csvOut, modalVars, sliceVars, restVars>>

\* the pieces the pasted texts are made of
PIECES ==
  << <<"$","6","0","/","h","r">>,
     <<"$","6","0"," ","p","e","r"," ","h","o","u","r">>,
     <<"$"," ","4","5",".","5","0"," ","/"," ","H","o","u","r">>,
     <<"$","8","0","k","-","$","1","2","0","k">>,
     <<"$","8","0",",","0","0","0"," ","~"," ","1","2","0",",","0","0","0">>,
     <<"4","0","-","5","0">>,
     <<"$","9","0">>,
     <<"/","h","o","u","r">>,
     <<"-">>,
     <<"\r">>,
     <<"\n">>,
     <<"$","8","0",",","0","0","0","-","$","1","2","0",",","0","0","0">>,
     <<"$","1",",","9","9","9","-","$","2",",","0","0","0">> >>

\* the pieces of the texts that speak of the kind of job
KIND_PIECES ==
  <<Chars(" C2C"), Chars(" c2h"), Chars(" 1099"), Chars(" W2"),
    Chars(" contract"), Chars(" contractor"), Chars(" Full-Time"),
    Chars(" part time"), Chars(" direct hire"), Chars(" salary"),
    Chars(" corp to corp"), Chars("or"), Chars(" remote")>>

\* the pieces of the texts with white space around and inside them
BLANK_PIECES ==
  <<Chars(" "), Chars("\n"), Chars("\t"), Chars("\r"), Chars("Dev"), Chars("a b")>>

\* the pieces of the texts parsed into a form the user has filled in
FILL_PIECES ==
  <<Chars("Dev"), Chars("\n"), Chars("Location:  "), Chars(" Kafka"),
    Chars(" $60/hr"), Chars(" remote"), Chars(" 5 years exp")>>

\* the pieces of the texts that speak of a place
PLACE_PIECES ==
  <<Chars("Dev\n"), Chars("Remote"), Chars(" $60/hr"), Chars("Austin, TX\n"),
    Chars("5 years, min\n"), Chars("Location: Paris\n"), Chars("City:"),
    Chars("hybrid\n")>>

RECURSIVE TextsOf(_, _)
\* the texts of at most n of the pieces
TextsOf(pieces, n) ==
  IF n = 0 THEN {<<>>}
  ELSE LET shorter == TextsOf(pieces, n - 1) IN
       shorter \cup {t \o pieces[k] : t \in shorter, k \in DOMAIN pieces}

BlankTexts == TextsOf(BLANK_PIECES, MaxPieces)

\* the textarea's onChange, the user adding a piece to the text
PasteText(piece) ==
  /\ parses < MaxParses
  /\ pasted < MaxPieces
  /\ pasteText' = pasteText \o piece
  /\ pasted' = pasted + 1
  /\ parseResult' = <<>>
  /\ UNCHANGED <<form, parses, success>>
  /\ ParseFrame

\* field X of the form after ...(parsed.X !== undefined ? {X: parsed.X} : {})
Merged(old, new) == IF new # <<>> THEN new ELSE old
\* the same for a field of text or of skills
MergedValue(old, new) == IF new # <<>> THEN new[1] ELSE old

\* setForm((f) => ({...f, ...(parsed.X !== undefined ? { X: parsed.X } : {})}))
fillForm(f, parsed) ==
  [f EXCEPT
    !.title = MergedValue(@, parsed.title),
    !.description = MergedValue(@, parsed.description),
    !.location = MergedValue(@, parsed.location),
    !.job_type = MergedValue(@, parsed.job_type),
    !.job_sub_type = MergedValue(@, parsed.job_sub_type),
    !.work_mode = MergedValue(@, parsed.work_mode),
    !.pay_per_hour = Merged(@, parsed.pay_per_hour),
    !.salary_min = Merged(@, parsed.salary_min),
    !.salary_max = Merged(@, parsed.salary_max),
    !.experience_required = Merged(@, parsed.experience_required),
    !.skills_required = MergedValue(@, parsed.skills_required)]

\* the Parse & Fill Form button, disabled on a blank text
handleParse ==
  /\ parses < MaxParses
  /\ Trim(pasteText) # <<>>
  /\ parseResult' = <<parseJobText(pasteText)>>
  /\ form' = fillForm(form, parseResult'[1])
  /\ parses' = parses + 1
  /\ success' = FALSE
  /\ UNCHANGED <<pasteText, pasted>>
  /\ ParseFrame

\* the Clear button, shown while there is a text
ClearPaste ==
  /\ pasteText # <<>>
  /\ pasteText' = <<>>
  /\ pasted' = 0
  /\ parseResult' = <<>>
  /\ UNCHANGED <<form, parses, success>>
  /\ ParseFrame

\* no dashboard is mounted
NoDashboard ==
  /\ props = [dash |-> "vendor", plan |-> "free", hasPurchasedVisibility |-> TRUE]
  /\ now = 0
  /\ ticks = 0
  /\ srvMatches = <<>>
  /\ matches = <<>>
  /\ rows = <<>>
  /\ srvPokes = <<>>
  /\ loading = FALSE
  /\ pokesSent = <<>>
  /\ pokeLoading = FALSE
  /\ matchesInflight = 0
  /\ pokesFetches = <<>>
  /\ sendReqs = {}
  /\ sendCount = 0
  /\ searchText = <<>>
  /\ filterType = <<>>
  /\ filterSubType = <<>>
  /\ filterWorkMode = <<>>
  /\ membershipConfig = NoMembership
  /\ pokeEmailRow = <<>>
  /\ pokeEmailSentSuccess = FALSE
  /\ closeTimers = 0
  /\ localPokeCount = 0
  /\ lastCall = NoCall
  /\ TableMounted
  /\ ModalIdle
  /\ SliceIdle
  /\ RestIdle
  /\ csvOut = <<>>

\* the post-job page alone
InitParse == NoDashboard /\ NothingPasted

NextParse ==
  \/ \E k \in DOMAIN PIECES : PasteText(PIECES[k])
  \/ handleParse
  \/ ClearPaste

SpecParse == InitParse /\ [][NextParse]_vars

\* the post-job page with texts that speak of the kind of job
NextKinds ==
  \/ \E k \in DOMAIN KIND_PIECES : PasteText(KIND_PIECES[k])
  \/ handleParse
  \/ ClearPaste

SpecKinds == InitParse /\ [][NextKinds]_vars

\* the post-job page with texts that speak of a place
NextPlaces ==
  \/ \E k \in DOMAIN PLACE_PIECES : PasteText(PLACE_PIECES[k])
  \/ handleParse
  \/ ClearPaste

SpecPlaces == InitParse /\ [][NextPlaces]_vars

\* a field of the form edited by the user
setField(key, value) ==
  /\ parses < MaxParses
  /\ form' = [form EXCEPT ![key] = value]
  /\ success' = FALSE
  /\ UNCHANGED <<pasteText, pasted, parseResult, parses>>
  /\ ParseFrame

\* the user types a skill and adds it
addSkill(skillInput) ==
  /\ parses < MaxParses
  /\ LET skill == Trim(skillInput) IN
     /\ skill # <<>>
     /\ skill \notin Range(form.skills_required)
     /\ form' = [form EXCEPT !.skills_required = Append(@, skill)]
  /\ success' = FALSE
  /\ UNCHANGED <<pasteText, pasted, parseResult, parses>>
  /\ ParseFrame

\* what the user types into the form
FieldInputs ==
  {<<"title", Chars("Lead")>>, <<"location", Chars("Austin")>>,
   <<"pay_per_hour", <<Num(50)>> >>, <<"recruiter_name", NAME_ANN>>}
SkillInputs == {Chars(" Cobol ")}

NextFill ==
  \/ \E k \in DOMAIN FILL_PIECES : PasteText(FILL_PIECES[k])
  \/ \E input \in FieldInputs : setField(input[1], input[2])
  \/ \E skill \in SkillInputs : addSkill(skill)
  \/ handleParse
  \/ ClearPaste

SpecFill == InitParse /\ [][NextFill]_vars

\* parseJobText applied to a string as it is, the empty one included
CallParseJobText ==
  /\ parseResult = <<>>
  /\ parseResult' = <<parseJobText(pasteText)>>
  /\ UNCHANGED <<pasteText, pasted, form, parses, success>>
  /\ ParseFrame

InitDescribe ==
  /\ NoDashboard
  /\ pasteText \in BlankTexts
  /\ pasted = 0
  /\ parseResult = <<>>
  /\ form = EMPTY
  /\ parses = 0
  /\ success = FALSE

NextDescribe == CallParseJobText

SpecDescribe == InitDescribe /\ [][NextDescribe]_vars

(* --------------------------- claim C10 --------------------------- *)

ParsedNow == parseResult # <<>>
PayMatched == payMatch(pasteText) # <<>>
RangeMatched == salMatch(pasteText) # <<>>
\* the text the hourly-pay pattern matched is that of $60 an hour
PayIsSixty ==
  PayMatched /\ LET m == payMatch(pasteText) IN
                SubSeq(RemoveAll(pasteText, "\r"), m[1], m[2]) = <<"6", "0">>

\* C10: whenever the hourly-pay pattern matches the parsed text, the parse
\* result has pay_per_hour set and neither salary_min nor salary_max, also
\* when the text holds a dollar range; and a text whose hourly pay reads
\* $60/hr yields pay_per_hour = 60 and no salary range.
C10_PayExcludesSalary ==
  ParsedNow /\ PayMatched =>
    /\ parseResult[1].pay_per_hour # <<>>
    /\ parseResult[1].salary_min = <<>>
    /\ parseResult[1].salary_max = <<>>
    /\ PayIsSixty => parseResult[1].pay_per_hour = <<Num(60)>>

\* a text with $60/hr and a dollar range has been parsed
C10_Witness ==
  /\ ParsedNow
  /\ PayIsSixty
  /\ RangeMatched
  /\ Includes(pasteText, <<"$","6","0","/","h","r">>)
  /\ parseResult[1].pay_per_hour = <<Num(60)>>

(* --------------------------- claim C11 --------------------------- *)

\* the two numbers of the matched dollar range, commas dropped
RangeLo ==
  LET m == salMatch(pasteText) IN
  DigitsToInt(RemoveAll(SubSeq(RemoveAll(pasteText, "\r"), m[1], m[2]), ","))
RangeHi ==
  LET m == salMatch(pasteText) IN
  DigitsToInt(RemoveAll(SubSeq(RemoveAll(pasteText, "\r"), m[3], m[4]), ","))

SalaryIs(lo, hi) ==
  /\ parseResult[1].salary_min = <<Num(lo)>>
  /\ parseResult[1].salary_max = <<Num(hi)>>

\* C11: when no hourly pay matches and a dollar range lo..hi does, the parse
\* result has salary_min = lo*1000 and salary_max = hi*1000 if lo < 2000 and
\* lo and hi unchanged otherwise; a k suffix changes nothing by itself, so
\* "$80k-$120k" and "$80,000-$120,000" both give 80000 and 120000.
C11_SalaryInThousands ==
  ParsedNow /\ ~PayMatched /\ RangeMatched =>
    /\ RangeLo < 2000 => SalaryIs(RangeLo * 1000, RangeHi * 1000)
    /\ RangeLo >= 2000 => SalaryIs(RangeLo, RangeHi)
    /\ pasteText = Chars("$80k-$120k") => SalaryIs(80000, 120000)
    /\ pasteText = Chars("$80,000-$120,000") => SalaryIs(80000, 120000)

\* a range starting at 1,999 has been parsed and read as thousands
C11_Witness ==
  /\ ParsedNow /\ ~PayMatched /\ RangeMatched
  /\ RangeLo = 1999
  /\ SalaryIs(1999000, 2000000)

(* --------------------------- claim C12 --------------------------- *)

\* the lower-cased text the rules are tested on
Lc == ToLowerCase(RemoveAll(pasteText, "\r"))

\* the seven rules in their order
RuleHolds(r, lc) ==
  CASE r = 1 -> IsC2C(lc)
    [] r = 2 -> IsC2H(lc)
    [] r = 3 -> Is1099(lc)
    [] r = 4 -> IsW2(lc) /\ IsContract(lc)
    [] r = 5 -> IsContract(lc) \/ IsContractor(lc)
    [] r = 6 -> IsFullTime(lc)
    [] r = 7 -> IsPartTime(lc)

\* what a rule sets
RulePair(r, lc) ==
  CASE r = 1 -> Kind(<<CONTRACT>>, <<C2C>>)
    [] r = 2 -> Kind(<<CONTRACT>>, <<C2H>>)
    [] r = 3 -> Kind(<<CONTRACT>>, <<T1099>>)
    [] r = 4 -> Kind(<<CONTRACT>>, <<W2>>)
    [] r = 5 -> Kind(<<CONTRACT>>, <<>>)
    [] r = 6 -> Kind(<<FULL_TIME>>,
                     CASE IsDirectHire(lc) -> <<DIRECT_HIRE>>
                       [] ~IsDirectHire(lc) /\ IsSalary(lc) -> <<SALARY>>
                       [] ~IsDirectHire(lc) /\ ~IsSalary(lc) /\ IsW2(lc) -> <<W2>>
                       [] OTHER -> <<>>)
    [] r = 7 -> Kind(<<PART_TIME>>, <<>>)

ParsedKind ==
  Kind(parseResult[1].job_type, parseResult[1].job_sub_type)

\* C12: the job type and sub-type of a parse are those of the first rule
\* that matches, in the order C2C, C2H, 1099, W2 with contract, contract or
\* contractor, full-time (direct_hire, else salary, else w2, else no
\* sub-type), part-time; both are unset when no rule matches; a text with
\* the words C2C and full-time gives contract/c2c.
C12_FirstRuleWins ==
  ParsedNow =>
    /\ \A r \in 1..7 :
         RuleHolds(r, Lc) /\ (\A q \in 1..(r - 1) : ~RuleHolds(q, Lc))
           => ParsedKind = RulePair(r, Lc)
    /\ (\A r \in 1..7 : ~RuleHolds(r, Lc)) => ParsedKind = Kind(<<>>, <<>>)
    /\ HasWord(Lc, Chars("c2c")) /\ IsFullTime(Lc)
         => ParsedKind = Kind(<<CONTRACT>>, <<C2C>>)

\* a text with the words C2C and full-time has been parsed
C12_Witness ==
  /\ ParsedNow
  /\ HasWord(Lc, Chars("c2c"))
  /\ IsFullTime(Lc)
  /\ ParsedKind = Kind(<<CONTRACT>>, <<C2C>>)

(* --------------------------- claim C13 --------------------------- *)

AllBlank(s) == \A k \in DOMAIN s : s[k] \in WHITESPACE

\* d is s without the white space at its two ends
IsTrimOf(d, s) ==
  /\ d # <<>> => d[1] \notin WHITESPACE /\ d[Len(d)] \notin WHITESPACE
  /\ \E a \in 0..(Len(s) - Len(d)) :
       /\ SubSeq(s, a + 1, a + Len(d)) = d
       /\ AllBlank(SubSeq(s, 1, a))
       /\ AllBlank(SubSeq(s, a + Len(d) + 1, Len(s)))

\* C13: for every input, the empty string and strings no rule matches
\* included, parseJobText returns a record, and the description of the record
\* is the input with the white space at its two ends removed and nothing else.
C13_DescriptionIsTrimmedInput ==
  ParsedNow =>
    /\ Len(parseResult) = 1
    /\ parseResult[1].description # <<>>
    /\ IsTrimOf(parseResult[1].description[1], pasteText)

\* a string with a carriage return inside it and white space around it has
\* been parsed, and so has the empty string
C13_Witness ==
  /\ ParsedNow
  /\ pasteText = Chars(" a b\r")
  /\ parseResult[1].description = <<Chars("a b")>>

C13_WitnessEmpty ==
  ParsedNow /\ pasteText = <<>> /\ parseResult[1].description = << <<>> >>

(* --------------------------- claim C14 --------------------------- *)

\* the fields Parse & Fill merges, and those of them holding a number
PARSED_FIELDS ==
  {"title", "description", "location", "job_type", "job_sub_type", "work_mode",
   "pay_per_hour", "salary_min", "salary_max", "experience_required",
   "skills_required"}
NUMBER_FIELDS ==
  {"pay_per_hour", "salary_min", "salary_max", "experience_required"}

\* the parser found a value for the field
Found(result, f) ==
  /\ result[f] # <<>>
  /\ f \notin NUMBER_FIELDS => result[f][1] # <<>>

\* C14: Parse & Fill is additive: a step of handleParse leaves every field
\* of the form for which the parser found no value as it was (the skills the
\* user entered included), and leaves the fields the parser does not know alone.
C14_ParseIsAdditive ==
  [][parses' # parses =>
       /\ \A f \in PARSED_FIELDS :
            ~Found(parseResult'[1], f) => form'[f] = form[f]
       /\ form'.recruiter_name = form.recruiter_name
       /\ form'.recruiter_phone = form.recruiter_phone]_vars

(* --------------------------- claim C15 --------------------------- *)

\* the text without its carriage returns, its lines and its non-empty lines
PastedText == RemoveAll(pasteText, "\r")
PastedLines == SplitLines(PastedText)
PastedNonEmpty == nonEmptyLines(PastedText)

\* the value of a line labelled Location:, City: or Work Location:, trimmed;
\* <<>> for any other line
LabelValue(line) ==
  LET l == ToLowerCase(line)
      name == IF FoundAt(l, 1, Chars("location")) THEN 9
              ELSE IF FoundAt(l, 1, Chars("city")) THEN 5
              ELSE IF FoundAt(l, 1, Chars("work location")) THEN 14
              ELSE 0
      colon == SkipSpace(l, name)
  IN IF name # 0 /\ At(l, colon) = ":"
     THEN <<Trim(SubSeq(line, colon + 1, Len(line)))>> ELSE <<>>

LabelLines == {i \in DOMAIN PastedLines : LabelValue(PastedLines[i]) # <<>>}
FirstLabel == LabelValue(PastedLines[Leftmost(LabelLines)])[1]

ParsedLocation == parseResult[1].location
\* the lines 2 to 4 the fallback scan looks at
ScannedLines ==
  {PastedNonEmpty[i] : i \in 2..Min(4, Len(PastedNonEmpty))}
NoYearToken(ln) == ~Includes(ToLowerCase(ln), Chars("year"))

\* a labelled line with a value decides
LabelPart ==
  LabelLines # {} /\ FirstLabel # <<>> => ParsedLocation = <<FirstLabel>>

\* a location of the fallback scan is short and free of $ and of year(s)
ScanPart ==
  LabelLines = {} /\ ParsedLocation # <<>> /\ ParsedLocation[1] \in ScannedLines
    => /\ Len(ParsedLocation[1]) < 40
       /\ "$" \notin Range(ParsedLocation[1])
       /\ NoYearToken(ParsedLocation[1])

\* without a label and a line of the scan, remote gives "Remote"
DefaultPart ==
  LabelLines = {} /\ (ParsedLocation = <<>> \/ ParsedLocation[1] \notin ScannedLines)
    => ParsedLocation = IF parseResult[1].work_mode = <<REMOTE>>
                        THEN <<Chars("Remote")>> ELSE <<>>

\* C15: a labelled Location:, City: or Work Location: line decides the
\* location; otherwise a location taken from the scan of lines 2 to 4 is
\* under 40 characters and holds no dollar sign and no year(s) token; when
\* no line qualifies the location is "Remote" if the work mode is remote and
\* unset if not.
C15_LocationRule ==
  ParsedNow => LabelPart /\ ScanPart /\ DefaultPart

(* ============ the mail-template composer: generate, then send ========== *)

\* PokeEmailModal: const isBusy = sending || generatingPdf
isBusy == pokeLoading \/ generatingPdf

\* disabled={isBusy || !subject.trim() || !body.trim() || sentSuccess}
sendDisabledUnlessSending(blank) == generatingPdf \/ blank \/ pokeEmailSentSuccess
sendDisabled(blank) == isBusy \/ blank \/ pokeEmailSentSuccess

\* the data URI generateResumePDF returns with its prefix removed
PDF_DATA == "JVBERi0="

\* generateResumePDF: the base64 text, or null when jsPDF threw
generateResumePDF(ok) == IF ok THEN <<PDF_DATA>> ELSE <<>>

\* onSend({..., pdf_data}): handlePokeEmailSend of the dashboard
onSend(generated, pdfData) ==
  /\ onSendLog' = Append(onSendLog, [generated |-> generated, pdf_data |-> pdfData])
  /\ lastCall' = [op |-> "onSend", id |-> pokeEmailRow[1].id]
  /\ handlePokeEmailSend

\* The body of generateResumePDF awaits nothing, so the promise handleSend
\* awaits is already settled and the rest of handleSend runs as a microtask:
\* no click, timer or response is handled while it is pending.
MicrotaskPending == generatingPdf

\* the Send button of the composer: handleSend up to its await.  The vendor
\* dashboard passes isVendor and no senderProfile; the candidate's profile
\* is null until it has been saved.
handleSend(blank, hasProfile) ==
  /\ ComposerOpen
  /\ ~sendDisabled(blank)
  /\ sendCount < MaxSends /\ FreeSlot(sendReqs) # 0
  /\ sendClicks' = sendClicks + 1
  /\ IF IsCandidateDash /\ hasProfile
     THEN /\ generatingPdf' = TRUE
          /\ lastCall' = NoCall
          /\ UNCHANGED <<onSendLog, pokeLoading, sendReqs, sendCount>>
     ELSE /\ onSend("none", <<>>)
          /\ UNCHANGED generatingPdf
  /\ UNCHANGED <<tableVars, csvOut, parseVars, sliceVars, restVars, props, clockVars, backendVars, matches,
                 loading, pokesSent, matchesInflight, pokesFetches, rows, filterVars,
                 composerVars, localPokeCount>>

\* a settlement that lets the failure of the generation end handleSend
PdfSettleOnSuccessOnly(ok) ==
  /\ MicrotaskPending
  /\ generatingPdf' = FALSE
  /\ IF ok THEN onSend("ok", generateResumePDF(ok))
     ELSE /\ lastCall' = NoCall
          /\ UNCHANGED <<onSendLog, pokeLoading, sendReqs, sendCount>>
  /\ UNCHANGED <<tableVars, csvOut, parseVars, sliceVars, restVars, sendClicks, props, clockVars,
                 backendVars, matches, loading, pokesSent, matchesInflight, pokesFetches,
                 rows, filterVars, composerVars, localPokeCount>>

\* the rest of handleSend: setGeneratingPdf(false), then onSend
PdfSettle(ok) ==
  /\ MicrotaskPending
  /\ generatingPdf' = FALSE
  /\ onSend(IF ok THEN "ok" ELSE "failed", generateResumePDF(ok))
  /\ UNCHANGED <<tableVars, csvOut, parseVars, sliceVars, restVars, sendClicks, props, clockVars,
                 backendVars, matches, loading, pokesSent, matchesInflight, pokesFetches,
                 rows, filterVars, composerVars, localPokeCount>>

\* Between two microtasks the dashboard handles its clicks, timers and
\* responses.  The clock and the two refresh buttons are left to Spec: they
\* touch nothing the composer reads.
NextSend ==
  \/ \E blank, hasProfile \in BOOLEAN : handleSend(blank, hasProfile)
  \/ \E ok \in BOOLEAN : PdfSettle(ok)
  \/ ~MicrotaskPending /\ \E i \in 1..3 : ClickPoke(i)
  \/ ~MicrotaskPending /\ \E i \in 1..3 : ClickMail(i)
  \/ ~MicrotaskPending /\ SidebarMailTemplate
  \/ ~MicrotaskPending /\ CloseComposer
  \/ ~MicrotaskPending /\ AutoClearSuccess
  \/ ~MicrotaskPending /\ VendorCloseTimer
  \/ ~MicrotaskPending /\ \E q \in sendReqs : SendFulfilled(q)
  \/ ~MicrotaskPending /\ \E q \in sendReqs : SendRejected(q)
  \/ ~MicrotaskPending /\ \E k \in 1..MaxInflight, n \in 0..MaxSends : PokesFetchFulfilled(k, n)
  \/ ~MicrotaskPending /\ \E k \in 1..MaxInflight : PokesFetchRejected(k)
  \/ ~MicrotaskPending /\ MatchesFulfilled
  \/ ~MicrotaskPending /\ MatchesRejected

SpecSend == Init /\ [][NextSend]_vars

\* the microtask queue is drained before the browser handles anything else
FairSend == SpecSend /\ WF_vars(\E ok \in BOOLEAN : PdfSettle(ok))

(* ---------------------------------------------------------------------- *)
(* C16: a failing PDF generation never blocks the send.  Every Send click *)
(* that handleSend accepts (the subject and the body are not blank) is    *)
(* followed by exactly one call of onSend: none before the generation has *)
(* finished, one afterwards, sooner or later, and a call that follows a   *)
(* failed generation carries no pdf_data.                                 *)
(* ---------------------------------------------------------------------- *)
Generating == IF generatingPdf THEN 1 ELSE 0

OnSendOncePerClick == Len(onSendLog) + Generating = sendClicks

OnSendAfterGeneration ==
  Len(onSendLog') # Len(onSendLog) => ~generatingPdf' /\ Len(onSendLog') = sendClicks'

NoAttachmentOnFailure ==
  \A k \in DOMAIN onSendLog :
    /\ onSendLog[k].generated = "failed" => onSendLog[k].pdf_data = <<>>
    /\ onSendLog[k].generated = "ok" => onSendLog[k].pdf_data = <<PDF_DATA>>

C16_FailedPdfNeverBlocksSend ==
  /\ [](OnSendOncePerClick /\ NoAttachmentOnFailure)
  /\ [][OnSendAfterGeneration]_vars
  /\ \A n \in 1..MaxSends : (sendClicks = n) ~> (Len(onSendLog) = n)

\* a generation failed, and onSend was called without an attachment
C16_Witness ==
  /\ ~generatingPdf
  /\ \E k \in DOMAIN onSendLog :
       onSendLog[k].generated = "failed" /\ onSendLog[k].pdf_data = <<>>
  /\ \E q \in sendReqs : q.is_email

(* ---------------------------------------------------------------------- *)
(* C17: the busy guard prevents duplicate submission.  From the Send      *)
(* click handleSend accepts until its sendPoke request is fulfilled or    *)
(* rejected, the Send button stays disabled, while the PDF is generated   *)
(* and while the request is in flight; so no second generate-then-send    *)
(* sequence starts, and at most one is in progress.                       *)
(* ---------------------------------------------------------------------- *)
MailsInFlight == {q \in sendReqs : q.is_email}

SequencesInProgress == Cardinality(MailsInFlight) + Generating

SendStaysDisabled == SequencesInProgress > 0 => \A blank \in BOOLEAN : sendDisabled(blank)

NoSecondSequence == sendClicks' # sendClicks => SequencesInProgress = 0

C17_BusyGuard ==
  /\ [](SendStaysDisabled /\ SequencesInProgress <= 1)
  /\ [][NoSecondSequence]_vars

\* the composer is open, its PDF was generated, and its request is in flight
C17_Witness ==
  /\ ComposerOpen
  /\ MailsInFlight # {}
  /\ onSendLog # <<>>
  /\ onSendLog[Len(onSendLog)].generated = "ok"
  /\ sendDisabled(FALSE)

(* ================= the jobs slice: failing backend calls =============== *)

MaxCalls == 2

LIST_THUNKS == {"fetchVendorJobs", "fetchCandidateMatches", "fetchVendorCandidateMatches"}
JOB_THUNKS == {"closeJob", "reopenJob"}
POKES_THUNKS == {"fetchPokesSent", "fetchPokesReceived"}
PROFILE_THUNKS == {"fetchProfile", "upsertProfile", "deleteProfile"}
THUNKS ==
  LIST_THUNKS \cup {"postJob", "sendPoke"} \cup JOB_THUNKS \cup POKES_THUNKS
    \cup PROFILE_THUNKS

\* what axios throws: the status and the error string of the response body
\* (status 0, no string: the request got no response)
FAILURES ==
  {[status |-> 500, error |-> <<"Database unavailable">>],
   [status |-> 404, error |-> <<"Not found">>],
   [status |-> 0, error |-> <<>>]}

\* the second operand of err.response?.data?.error || "Failed to ..."
Fallback(thunk) == "Failed: " \o thunk

\* the value a thunk rejects with
RejectValue(thunk, failure) ==
  IF failure.error # <<>> THEN failure.error[1] ELSE Fallback(thunk)

\* fetchProfile: if (err.response?.status === 404) return null
Rejects(thunk, failure) == ~(thunk = "fetchProfile" /\ failure.status = 404)

\* the reducers of the pending actions
pendingReducer(thunk) ==
  CASE thunk \in LIST_THUNKS \cup {"postJob"} ->
         /\ loading' = TRUE
         /\ error' = <<>>
         /\ UNCHANGED <<pokeLoading, pokeError, profileLoading, profileError, pokesLoading>>
    [] thunk = "sendPoke" ->
         /\ pokeLoading' = TRUE
         /\ pokeError' = <<>>
         /\ UNCHANGED <<loading, error, profileLoading, profileError, pokesLoading>>
    [] thunk \in PROFILE_THUNKS ->
         /\ profileLoading' = TRUE
         /\ profileError' = <<>>
         /\ UNCHANGED <<loading, error, pokeLoading, pokeError, pokesLoading>>
    [] thunk \in POKES_THUNKS ->
         /\ pokesLoading' = TRUE
         /\ UNCHANGED <<loading, error, pokeLoading, pokeError, profileLoading, profileError>>
    [] OTHER ->
         UNCHANGED <<loading, error, pokeLoading, pokeError, profileLoading, profileError,
                     pokesLoading>>

\* the reducers of the fulfilled actions (the payloads are the lists the
\* backend serves, which this page has none of)
fulfilledReducer(thunk) ==
  /\ CASE thunk \in LIST_THUNKS \cup {"postJob"} ->
            loading' = FALSE /\ UNCHANGED <<pokeLoading, profileLoading, pokesLoading>>
       [] thunk = "sendPoke" ->
            pokeLoading' = FALSE /\ UNCHANGED <<loading, profileLoading, pokesLoading>>
       [] thunk \in PROFILE_THUNKS ->
            profileLoading' = FALSE /\ UNCHANGED <<loading, pokeLoading, pokesLoading>>
       [] thunk \in POKES_THUNKS ->
            pokesLoading' = FALSE /\ UNCHANGED <<loading, pokeLoading, profileLoading>>
       [] OTHER -> UNCHANGED <<loading, pokeLoading, profileLoading, pokesLoading>>
  /\ UNCHANGED <<error, pokeError, profileError>>

\* the reducers of the rejected actions
rejectedReducer(thunk, payload) ==
  CASE thunk \in LIST_THUNKS \cup {"postJob"} ->
         /\ loading' = FALSE
         /\ error' = <<payload>>
         /\ UNCHANGED <<pokeLoading, pokeError, profileLoading, profileError, pokesLoading>>
    [] thunk = "sendPoke" ->
         /\ pokeLoading' = FALSE
         /\ pokeError' = <<payload>>
         /\ UNCHANGED <<loading, error, profileLoading, profileError, pokesLoading>>
    [] thunk \in PROFILE_THUNKS ->
         /\ profileLoading' = FALSE
         /\ profileError' = <<payload>>
         /\ UNCHANGED <<loading, error, pokeLoading, pokeError, pokesLoading>>
    [] thunk \in POKES_THUNKS ->
         /\ pokesLoading' = FALSE
         /\ UNCHANGED <<loading, error, pokeLoading, pokeError, profileLoading, profileError>>
    [] OTHER ->
         UNCHANGED <<loading, error, pokeLoading, pokeError, profileLoading, profileError,
                     pokesLoading>>

\* what the slice leaves alone
sliceFrame ==
  UNCHANGED <<tableVars, csvOut, parseVars, modalVars, restVars, props, clockVars,
              backendVars,
              matches, pokesSent, flightVars, rows, filterVars, composerVars,
              localPokeCount, lastCall>>

\* dispatch(thunk(...)): the pending action, and the call goes out
Dispatch(thunk) ==
  /\ thunk \notin calls
  /\ Cardinality(calls) < MaxCalls
  /\ calls' = calls \cup {thunk}
  /\ lastRejected' = <<>>
  /\ pendingReducer(thunk)
  /\ sliceFrame

\* the call returns its data
CallSucceeds(thunk) ==
  /\ thunk \in calls
  /\ calls' = calls \ {thunk}
  /\ lastRejected' = <<>>
  /\ fulfilledReducer(thunk)
  /\ sliceFrame

\* the call fails: the catch of the thunk
CallFails(thunk, failure) ==
  /\ thunk \in calls
  /\ calls' = calls \ {thunk}
  /\ IF Rejects(thunk, failure)
     THEN /\ lastRejected' = <<[thunk |-> thunk, failure |-> failure]>>
          /\ rejectedReducer(thunk, RejectValue(thunk, failure))
     ELSE /\ lastRejected' = <<>>
          /\ fulfilledReducer(thunk)
  /\ sliceFrame

\* the reducer clearPokeState
clearPokeState ==
  /\ pokeError' = <<>>
  /\ lastRejected' = <<>>
  /\ UNCHANGED <<loading, error, pokeLoading, profileLoading, profileError, pokesLoading,
                 calls>>
  /\ sliceFrame

\* the reducer clearProfileError
clearProfileError ==
  /\ profileError' = <<>>
  /\ lastRejected' = <<>>
  /\ UNCHANGED <<loading, error, pokeLoading, pokeError, profileLoading, pokesLoading,
                 calls>>
  /\ sliceFrame

NextSlice ==
  \/ \E thunk \in THUNKS : Dispatch(thunk)
  \/ \E thunk \in THUNKS : CallSucceeds(thunk)
  \/ \E thunk \in THUNKS, failure \in FAILURES : CallFails(thunk, failure)
  \/ clearPokeState
  \/ clearProfileError

SpecSlice == InitParse /\ [][NextSlice]_vars

(* ---------------------------------------------------------------------- *)
(* C18: every backend call that fails leaves the error string of the      *)
(* backend in the store field that feeds the inline alert (error,         *)
(* pokeError or profileError), and the string stays there until the next  *)
(* request of that kind starts.                                           *)
(* ---------------------------------------------------------------------- *)
\* the calls whose failure each field shows
ERROR_CALLS == LIST_THUNKS \cup {"postJob"} \cup JOB_THUNKS
POKE_CALLS == {"sendPoke"} \cup POKES_THUNKS

AlertOf(thunk) ==
  CASE thunk \in ERROR_CALLS -> error
    [] thunk \in POKE_CALLS -> pokeError
    [] OTHER -> profileError

\* the call that has just failed left the string of the backend in its field
FailureIsShown ==
  \A r \in {lastRejected[k] : k \in DOMAIN lastRejected} :
    r.failure.error # <<>> => AlertOf(r.thunk) = r.failure.error

Started(thunks) == \E thunk \in thunks : thunk \in calls' /\ thunk \notin calls

\* a string in a field goes away only when a request of its kind starts
MessageStays ==
  /\ (error # <<>> /\ error' # error) => Started(ERROR_CALLS)
  /\ (pokeError # <<>> /\ pokeError' # pokeError) => Started(POKE_CALLS)
  /\ (profileError # <<>> /\ profileError' # profileError) => Started(PROFILE_THUNKS)

C18_FailedCallLeavesError == [](FailureIsShown) /\ [][MessageStays]_vars

(* ---------------------------------------------------------------------- *)
(* C19: a click on the header of the current sort column flips the        *)
(* direction between ascending and descending and keeps the column; a     *)
(* click on the header of any other column makes that column the sort     *)
(* column with direction ascending, whatever the direction was.           *)
(* ---------------------------------------------------------------------- *)
Flipped(dir) == IF dir = "asc" THEN "desc" ELSE "asc"

SortedAfterClick(key) ==
  IF sortKey = <<key>>
  THEN sortKey' = <<key>> /\ sortDir' = Flipped(sortDir)
  ELSE sortKey' = <<key>> /\ sortDir' = "asc"

C19_SortToggle == [][\A key \in SortKeys : handleSort(key) => SortedAfterClick(key)]_vars

\* a header was clicked twice in a row: its column is sorted descending
C19_Witness == resetPending /\ sortKey # <<>> /\ sortDir = "desc"

(* ---------------------------------------------------------------------- *)
(* C20: after every change of the sort column or of the sort direction,   *)
(* and after every change of the number of rows of the row set, the page  *)
(* index is reset to the first page (0) before any further user action    *)
(* takes effect.                                                          *)
(* ---------------------------------------------------------------------- *)
SortOrCountChanged ==
  sortKey' # sortKey \/ sortDir' # sortDir \/ Len(rows') # Len(rows)

\* the step that follows the change is the reset, and nothing else
ResetComesFirst ==
  resetPending =>
    /\ page' = 0
    /\ ~resetPending'
    /\ UNCHANGED <<rows, pageSize, sortKey, sortDir>>

C20_PageResetOnSortOrCount ==
  [][(SortOrCountChanged => resetPending') /\ ResetComesFirst]_vars

\* the sort changed while a later page was shown, and the reset is due
C20_Witness == resetPending /\ page > 0 /\ sortKey # <<>>

(* ---------------------------------------------------------------------- *)
(* C21: when the page-size selector is changed while the current page     *)
(* index lies beyond the last page the result set has under the new page  *)
(* size, the visible page becomes the last valid page,                    *)
(* ceil(total / pageSize) - 1.                                            *)
(* ---------------------------------------------------------------------- *)
LastPageWith(n) == Max(1, Ceil(Len(rows), n)) - 1

PageSizeShrinksPages == pageSize' # pageSize /\ page > LastPageWith(pageSize')

C21_PageSizeClampsToLast ==
  [][PageSizeShrinksPages => safePage' = LastPageWith(pageSize')]_vars

\* C21 as the code has it: when the page-size selector is changed while the
\* current page index lies beyond the last page the result set has under the
\* new page size, the visible page becomes the first page, 0.
C21_PageSizeResetsToFirst ==
  [][PageSizeShrinksPages => page' = 0 /\ safePage' = 0]_vars

\* the page size was changed before, and the page shown now lies beyond the
\* last page that another page size on offer leaves
C21_Witness ==
  /\ TableIdle /\ PagerShown
  /\ pageSize # 25
  /\ \E n \in PAGE_SIZE_OPTIONS : n # pageSize /\ page > LastPageWith(n) /\ LastPageWith(n) > 0

(* ---------------------------------------------------------------------- *)
(* C22: each job posting can be emailed once.  In a candidate dashboard,  *)
(* after a mail-template send for a job has succeeded, no second          *)
(* mail-template send (sendPoke with is_email true) for the same job is   *)
(* dispatched, from the table or from a composer that is still open.      *)
(* ---------------------------------------------------------------------- *)
\* the jobs whose mail-template send has succeeded
MailedJobs == {srvPokes[k].target_id : k \in {j \in DOMAIN srvPokes : srvPokes[j].is_email}}

\* the sendPoke requests this step dispatches
Dispatched == sendReqs' \ sendReqs

C22_MailedOncePerJob ==
  [][IsCandidateDash => \A q \in Dispatched : q.is_email => q.target_id \notin MailedJobs]_vars

(* ---------------------------------------------------------------------- *)
(* The vendor's job postings: the postings table of the vendor dashboard, *)
(* JobPostingModal, and the closeJob / reopenJob thunks.                  *)
(* ---------------------------------------------------------------------- *)
MaxJobCalls == 2

\* everything outside the job postings
pageVars == <<props, clockVars, backendVars, storeVars, flightVars, rows, filterVars,
              composerVars, localPokeCount, lastCall, tableVars, csvOut, parseVars,
              modalVars, sliceVars>>

jobsFrame == UNCHANGED <<pageVars, draftVars, vcmVars, profileVars>>

\* open && job of JobPostingModal: open={selectedJobPosting !== null}
modalOpen == selectedJobPosting # <<>>

\* the job prop of the modal
job == selectedJobPosting[1]

RemoveAt(seq, i) == [k \in 1..(Len(seq) - 1) |-> IF k < i THEN seq[k] ELSE seq[k + 1]]

\* the first lines of handleCloseJob / handleReopenJob: setClosingJobId(jobId)
\* and the dispatch of the thunk
startJobCall(op, jobId, from) ==
  /\ Len(jobCalls) < MaxJobCalls
  /\ closingJobId' = <<jobId>>
  /\ jobCalls' = Append(jobCalls, [op |-> op, id |-> jobId, from |-> from])

\* the expand button of a posting's row: setSelectedJobPosting(job)
OpenPosting(j) ==
  /\ ~modalOpen
  /\ selectedJobPosting' = <<[id |-> j, is_active |-> vendorJobs[j]]>>
  /\ UNCHANGED <<vendorJobs, srvJobs, closingJobId, busy, confirm, jobCalls>>
  /\ jobsFrame

\* onClose of the modal (overlay, the x button, the Close button):
\* setSelectedJobPosting(null); the modal stays mounted and keeps its state
ClosePosting ==
  /\ modalOpen
  /\ selectedJobPosting' = <<>>
  /\ UNCHANGED <<vendorJobs, srvJobs, closingJobId, busy, confirm, jobCalls>>
  /\ jobsFrame

\* the Close Position button of the footer: setConfirm(true)
ClickClosePosition ==
  /\ modalOpen
  /\ job.is_active /\ ~confirm
  /\ ~busy
  /\ confirm' = TRUE
  /\ UNCHANGED <<vendorJobs, srvJobs, selectedJobPosting, closingJobId, busy, jobCalls>>
  /\ jobsFrame

\* the Cancel button of the confirmation bar: setConfirm(false)
CancelConfirm ==
  /\ modalOpen
  /\ confirm
  /\ confirm' = FALSE
  /\ UNCHANGED <<vendorJobs, srvJobs, selectedJobPosting, closingJobId, busy, jobCalls>>
  /\ jobsFrame

\* the Yes button of the confirmation bar: handleClose_job up to its await
handleClose_job ==
  /\ modalOpen
  /\ confirm
  /\ ~busy
  /\ busy' = TRUE
  /\ confirm' = FALSE
  /\ startJobCall("closeJob", job.id, "modal")
  /\ UNCHANGED <<vendorJobs, srvJobs, selectedJobPosting>>
  /\ jobsFrame

\* the Reopen Position button of the footer: handleReopen up to its await
handleReopen ==
  /\ modalOpen
  /\ ~job.is_active
  /\ ~busy
  /\ busy' = TRUE
  /\ startJobCall("reopenJob", job.id, "modal")
  /\ UNCHANGED <<vendorJobs, srvJobs, selectedJobPosting, confirm>>
  /\ jobsFrame

\* the Close button of a posting's row: handleCloseJob(job.id)
RowClose(j) ==
  /\ ~modalOpen
  /\ vendorJobs[j]
  /\ closingJobId # <<j>>
  /\ startJobCall("closeJob", j, "row")
  /\ UNCHANGED <<vendorJobs, srvJobs, selectedJobPosting, busy, confirm>>
  /\ jobsFrame

\* the Reopen button of a posting's row: handleReopenJob(job.id)
RowReopen(j) ==
  /\ ~modalOpen
  /\ ~vendorJobs[j]
  /\ closingJobId # <<j>>
  /\ startJobCall("reopenJob", j, "row")
  /\ UNCHANGED <<vendorJobs, srvJobs, selectedJobPosting, busy, confirm>>
  /\ jobsFrame

\* is_active of the Job the backend returns for a call
activeAfter(op) == op = "reopenJob"

\* the rest of handleCloseJob / handleReopenJob after the await, and of the
\* modal's handler when the call came from the modal: setClosingJobId(null),
\* the modal's job takes the flag of the operation, setBusy(false)
afterJobCall(call) ==
  /\ closingJobId' = <<>>
  /\ selectedJobPosting' =
       IF modalOpen /\ job.id = call.id
       THEN <<[job EXCEPT !.is_active = activeAfter(call.op)]>>
       ELSE selectedJobPosting
  /\ busy' = IF call.from = "modal" THEN FALSE ELSE busy

\* closeJob.fulfilled / reopenJob.fulfilled: the entry of vendorJobs becomes
\* the payload; then the handler goes on
JobCallFulfilled(i) ==
  /\ i \in DOMAIN jobCalls
  /\ srvJobs' = [srvJobs EXCEPT ![jobCalls[i].id] = activeAfter(jobCalls[i].op)]
  /\ vendorJobs' = [vendorJobs EXCEPT ![jobCalls[i].id] = activeAfter(jobCalls[i].op)]
  /\ afterJobCall(jobCalls[i])
  /\ jobCalls' = RemoveAt(jobCalls, i)
  /\ UNCHANGED confirm
  /\ jobsFrame

\* closeJob.rejected / reopenJob.rejected have no reducer; the handler goes on
JobCallRejected(i) ==
  /\ i \in DOMAIN jobCalls
  /\ afterJobCall(jobCalls[i])
  /\ jobCalls' = RemoveAt(jobCalls, i)
  /\ UNCHANGED <<vendorJobs, srvJobs, confirm>>
  /\ jobsFrame

NextJobs ==
  \/ \E j \in JobIds : OpenPosting(j)
  \/ ClosePosting
  \/ ClickClosePosition
  \/ CancelConfirm
  \/ handleClose_job
  \/ handleReopen
  \/ \E j \in JobIds : RowClose(j)
  \/ \E j \in JobIds : RowReopen(j)
  \/ \E i \in 1..MaxJobCalls : JobCallFulfilled(i)
  \/ \E i \in 1..MaxJobCalls : JobCallRejected(i)

SpecJobs == InitParse /\ [][NextJobs]_vars

(* ---------------------------------------------------------------------- *)
(* C23: JobPostingModal has a confirmation flow for both close and        *)
(* reopen.  Neither the close-job callback nor the reopen-job callback is *)
(* invoked unless the user first entered a confirmation step for that     *)
(* operation and accepted it; cancelling the confirmation invokes neither.*)
(* ---------------------------------------------------------------------- *)
\* the callbacks the modal invokes in this step
InvokedByModal ==
  {jobCalls'[k].op : k \in {n \in DOMAIN jobCalls' : n > Len(jobCalls) /\ jobCalls'[n].from = "modal"}}

\* the operations whose confirmation step is on the screen
Confirming == IF modalOpen /\ confirm THEN {"closeJob"} ELSE {}

C23_ConfirmBeforeCloseAndReopen ==
  [][/\ InvokedByModal \subseteq Confirming
     /\ CancelConfirm => InvokedByModal = {}]_vars

(* ---------------------------------------------------------------------- *)
(* C25: after handleCloseJob or handleReopenJob completes, whether the    *)
(* request was fulfilled or rejected, the is_active flag of the job shown *)
(* in the job-posting modal equals the is_active flag of the entry with   *)
(* the same id in the store's vendorJobs.                                 *)
(* ---------------------------------------------------------------------- *)
\* the ids of the calls whose handler completes in this step
CompletedJobs ==
  {jobCalls[i].id : i \in {k \in DOMAIN jobCalls : jobCalls' = RemoveAt(jobCalls, k)}}

\* the modal shows the flag the store has for its job
ModalAgreesWithStore ==
  selectedJobPosting # <<>> =>
    selectedJobPosting[1].is_active = vendorJobs[selectedJobPosting[1].id]

C25_ModalFlagIsStoreFlag ==
  [][modalOpen /\ job.id \in CompletedJobs => ModalAgreesWithStore']_vars

(* ---------------------------------------------------------------------- *)
(* C30: every time JobPostingModal is opened for a job (after having been *)
(* closed, or for a different job), the close-confirmation bar is         *)
(* initially hidden, so closing a position always takes a fresh Close     *)
(* Position click followed by Yes on that same job.                       *)
(* ---------------------------------------------------------------------- *)
\* the confirmation bar is on the screen: {confirm && (...)}
confirmBarShown == modalOpen /\ confirm

C30_ConfirmBarHiddenOnOpen ==
  [][~modalOpen /\ modalOpen' => ~confirmBarShown']_vars

(* ---------------------------------------------------------------------- *)
(* useDraftCache: saveDraft, clearDraft, getDraft, hasDraft, the unmount  *)
(* cleanup, and the timeout that writes the draft.                        *)
(* ---------------------------------------------------------------------- *)
DEBOUNCE_MS == 800

\* time advances in steps of half the debounce delay
StepMs == DEBOUNCE_MS \div 2
MaxTime == 2400
MaxDraftCalls == 4

Drafts == {<<"a">>, <<"b">>}

\* JSON.stringify of a string and JSON.parse of its result
JSONstringify(data) == <<"\"">> \o data \o <<"\"">>
JSONparse(raw) == SubSeq(raw, 2, Len(raw) - 1)

draftFrame == UNCHANGED <<pageVars, jobVars, vcmVars, profileVars>>

\* clearTimeout(id): the timeout with that id, if it is still pending, is dropped
clearTimeout(id) == {t \in timers : t.id # id}

\* the ids of the timeouts that are pending
PendingIds == {t.id : t \in timers}

\* no timeout is due: the instants of the model are StepMs apart, a timeout
\* that is due at an instant runs at its start, and the calls made within the
\* step come after it
NoneDue == \A t \in timers : t.due > draftNow

\* a saveDraft that leaves the earlier timeout alone
saveDraftKeepsTimer(data) ==
  /\ Len(draftCalls) < MaxDraftCalls
  /\ NoneDue
  /\ draftCalls' = Append(draftCalls, [op |-> "saveDraft", at |-> draftNow, data |-> data,
                                       pending |-> PendingIds])
  /\ timerRef' = Len(draftCalls')
  /\ timers' = timers \cup {[id |-> timerRef', due |-> draftNow + DEBOUNCE_MS, data |-> data]}
  /\ UNCHANGED <<storage, mounted, draftNow, writes>>
  /\ draftFrame

\* saveDraft(data): the earlier timeout is cleared and a new one is set; the id
\* of a timeout is the number of the call that set it
saveDraft(data) ==
  /\ Len(draftCalls) < MaxDraftCalls
  /\ NoneDue
  /\ draftCalls' = Append(draftCalls, [op |-> "saveDraft", at |-> draftNow, data |-> data,
                                       pending |-> PendingIds])
  /\ timerRef' = Len(draftCalls')
  /\ timers' = clearTimeout(timerRef)
                 \cup {[id |-> timerRef', due |-> draftNow + DEBOUNCE_MS, data |-> data]}
  /\ UNCHANGED <<storage, mounted, draftNow, writes>>
  /\ draftFrame

\* clearDraft(): the timeout is cleared and the key removed
clearDraft ==
  /\ Len(draftCalls) < MaxDraftCalls
  /\ NoneDue
  /\ draftCalls' = Append(draftCalls, [op |-> "clearDraft", at |-> draftNow, data |-> <<>>,
                                       pending |-> PendingIds])
  /\ timers' = clearTimeout(timerRef)
  /\ storage' = <<>>
  /\ UNCHANGED <<timerRef, mounted, draftNow, writes>>
  /\ draftFrame

\* the cleanup of the effect, run when the component unmounts
Unmount ==
  /\ mounted
  /\ Len(draftCalls) < MaxDraftCalls
  /\ NoneDue
  /\ draftCalls' = Append(draftCalls, [op |-> "unmount", at |-> draftNow, data |-> <<>>,
                                       pending |-> PendingIds])
  /\ mounted' = FALSE
  /\ timers' = clearTimeout(timerRef)
  /\ UNCHANGED <<timerRef, storage, draftNow, writes>>
  /\ draftFrame

\* a timeout fires when it is due: localStorage.setItem(key, JSON.stringify(data)),
\* which stores the text or throws (quota exceeded, private browsing)
TimeoutFires(t, stored) ==
  /\ t \in timers
  /\ t.due = draftNow
  /\ timers' = timers \ {t}
  /\ storage' = IF stored THEN <<JSONstringify(t.data)>> ELSE storage
  /\ writes' = Append(writes, [id |-> t.id, at |-> draftNow, raw |-> JSONstringify(t.data),
                               stored |-> stored])
  /\ UNCHANGED <<timerRef, mounted, draftNow, draftCalls>>
  /\ draftFrame

\* time passes once the timeouts that are due have run
DraftTick ==
  /\ draftNow < MaxTime
  /\ NoneDue
  /\ draftNow' = draftNow + StepMs
  /\ UNCHANGED <<timerRef, timers, storage, mounted, draftCalls, writes>>
  /\ draftFrame

\* getDraft() and hasDraft()
getDraft == IF storage # <<>> /\ storage[1] # <<>> THEN <<JSONparse(storage[1])>> ELSE <<>>
hasDraft == storage # <<>>

NextDraft ==
  \/ \E data \in Drafts : saveDraft(data)
  \/ clearDraft
  \/ Unmount
  \/ \E t \in timers, stored \in BOOLEAN : TimeoutFires(t, stored)
  \/ DraftTick

SpecDraft == InitParse /\ [][NextDraft]_vars

(* ---------------------------------------------------------------------- *)
(* C24: useDraftCache debounces and cancels correctly.  In any burst of   *)
(* saveDraft calls each less than 800 ms after the previous one, exactly  *)
(* one storage write (one call of localStorage.setItem) happens, 800 ms   *)
(* after the last call and with the last call's data; a write that is     *)
(* pending when clearDraft is called or the component unmounts never      *)
(* happens, so after clearDraft the draft key stays absent until a later  *)
(* saveDraft fires.                                                       *)
(* ---------------------------------------------------------------------- *)
SaveCalls == {k \in DOMAIN draftCalls : draftCalls[k].op = "saveDraft"}
CancelCalls == {k \in DOMAIN draftCalls : draftCalls[k].op \in {"clearDraft", "unmount"}}

\* call k is followed, less than the delay later, by another saveDraft: it is
\* not the last call of its burst
Superseded(k) ==
  \E j \in SaveCalls : j > k /\ draftCalls[j].at - draftCalls[k].at < DEBOUNCE_MS

\* the timeout of call k was pending when clearDraft was called or the
\* component unmounted
Cancelled(k) == \E c \in CancelCalls : k \in draftCalls[c].pending

WritesOf(k) == {w \in DOMAIN writes : writes[w].id = k}

\* the write of a burst comes from its last call, at the delay after it, with
\* that call's data, and once
OnlyTheLastOfABurstWrites ==
  \A w \in DOMAIN writes :
    /\ writes[w].id \in SaveCalls
    /\ ~Superseded(writes[w].id)
    /\ writes[w].at = draftCalls[writes[w].id].at + DEBOUNCE_MS
    /\ writes[w].raw = JSONstringify(draftCalls[writes[w].id].data)
    /\ WritesOf(writes[w].id) = {w}

\* the last call of a burst has written once its delay is over
TheLastOfABurstWrites ==
  \A k \in SaveCalls :
    ~Superseded(k) /\ ~Cancelled(k) /\ draftNow > draftCalls[k].at + DEBOUNCE_MS
      => WritesOf(k) # {}

CancelledNeverWrites == \A k \in SaveCalls : Cancelled(k) => WritesOf(k) = {}

ClearCalls == {k \in DOMAIN draftCalls : draftCalls[k].op = "clearDraft"}

\* after clearDraft the key is absent unless a saveDraft called later has written
AbsentAfterClear ==
  \A c \in ClearCalls :
    hasDraft => \E w \in DOMAIN writes : writes[w].id > c /\ writes[w].stored

C24_DebounceAndCancel ==
  /\ OnlyTheLastOfABurstWrites
  /\ TheLastOfABurstWrites
  /\ CancelledNeverWrites
  /\ AbsentAfterClear

\* a burst of two calls has written the second call's data, and the delay of a
\* timeout that clearDraft or the unmount found pending is over
C24_Witness ==
  /\ \E w \in DOMAIN writes :
       /\ writes[w].id - 1 \in SaveCalls
       /\ Superseded(writes[w].id - 1)
       /\ draftCalls[writes[w].id - 1].data # draftCalls[writes[w].id].data
       /\ getDraft = <<draftCalls[writes[w].id].data>>
  /\ \E k \in SaveCalls : Cancelled(k) /\ draftNow > draftCalls[k].at + DEBOUNCE_MS

(* ---------------------------------------------------------------------- *)
(* The candidates view of the vendor dashboard: the job selector, the     *)
(* refresh buttons, and the fetchVendorCandidateMatches and               *)
(* fetchVendorJobs thunks.                                                *)
(* ---------------------------------------------------------------------- *)
MaxVcmReqs == 2
MaxJobsFetches == 1

\* what the list thunks and their reducers leave alone
vcmFrame ==
  UNCHANGED <<props, clockVars, backendVars, matches, pokesSent, flightVars, rows,
              filterVars, composerVars, localPokeCount, lastCall, tableVars, csvOut,
              parseVars, modalVars, calls, lastRejected, draftVars, profileVars>>

\* the openings of the selector: vendorJobs.filter((j) => j.is_active)
activeJobs == {j \in JobIds : vendorJobs[j]}

\* dispatch(fetchVendorCandidateMatches({ token, jobId: selectedJobId || null }))
fetchVendorCandidateMatches(jobId) ==
  /\ Len(vcmReqs) < MaxVcmReqs
  /\ vcmReqs' = Append(vcmReqs, [jobId |-> jobId])
  /\ pendingReducer("fetchVendorCandidateMatches")

\* setSelectedJobId(id) of the selector, a sidebar item or Reset, and the
\* effect that fetches when selectedJobId changed
SelectJob(id) ==
  /\ id \in {0} \cup activeJobs
  /\ id # selectedJobId
  /\ selectedJobId' = id
  /\ fetchVendorCandidateMatches(id)
  /\ UNCHANGED <<vendorCandidateMatches, jobsInflight, vcmFailed, jobVars>>
  /\ vcmFrame

\* the Refresh button and the sidebar's Refresh Data: fetchVendorJobs and
\* fetchVendorCandidateMatches for the selected job
RefreshVendor ==
  /\ jobsInflight < MaxJobsFetches
  /\ jobsInflight' = jobsInflight + 1
  /\ fetchVendorCandidateMatches(selectedJobId)
  /\ UNCHANGED <<selectedJobId, vendorCandidateMatches, vcmFailed, jobVars>>
  /\ vcmFrame

\* fetchVendorCandidateMatches.fulfilled: the payload replaces the list
VcmFulfilled(i) ==
  /\ i \in DOMAIN vcmReqs
  /\ vcmReqs' = RemoveAt(vcmReqs, i)
  /\ fulfilledReducer("fetchVendorCandidateMatches")
  /\ vendorCandidateMatches' = CandidatesFor(vcmReqs[i].jobId)
  /\ UNCHANGED <<selectedJobId, jobsInflight, vcmFailed, jobVars>>
  /\ vcmFrame

\* fetchVendorCandidateMatches.rejected
VcmRejected(i, failure) ==
  /\ i \in DOMAIN vcmReqs
  /\ vcmReqs' = RemoveAt(vcmReqs, i)
  /\ rejectedReducer("fetchVendorCandidateMatches",
                     RejectValue("fetchVendorCandidateMatches", failure))
  /\ vcmFailed' = TRUE
  /\ UNCHANGED <<selectedJobId, vendorCandidateMatches, jobsInflight, jobVars>>
  /\ vcmFrame

\* fetchVendorJobs.fulfilled: the payload replaces vendorJobs
JobsFulfilled ==
  /\ jobsInflight > 0
  /\ jobsInflight' = jobsInflight - 1
  /\ fulfilledReducer("fetchVendorJobs")
  /\ vendorJobs' = srvJobs
  /\ UNCHANGED <<srvJobs, selectedJobPosting, closingJobId, busy, confirm, jobCalls>>
  /\ UNCHANGED <<selectedJobId, vendorCandidateMatches, vcmReqs, vcmFailed>>
  /\ vcmFrame

\* fetchVendorJobs.rejected
JobsRejected(failure) ==
  /\ jobsInflight > 0
  /\ jobsInflight' = jobsInflight - 1
  /\ rejectedReducer("fetchVendorJobs", RejectValue("fetchVendorJobs", failure))
  /\ UNCHANGED <<selectedJobId, vendorCandidateMatches, vcmReqs, vcmFailed, jobVars>>
  /\ vcmFrame

NextVcm ==
  \/ \E id \in JobChoices : SelectJob(id)
  \/ RefreshVendor
  \/ \E i \in 1..MaxVcmReqs : VcmFulfilled(i)
  \/ \E i \in 1..MaxVcmReqs, failure \in FAILURES : VcmRejected(i, failure)
  \/ JobsFulfilled
  \/ \E failure \in FAILURES : JobsRejected(failure)

SpecVcm == InitParse /\ [][NextVcm]_vars

(* ---------------------------------------------------------------------- *)
(* C26: when the vendor changes the selected job (or refreshes) while an  *)
(* earlier candidate-matches request is still in flight, then once all    *)
(* requests have completed the store's vendorCandidateMatches holds the   *)
(* response for the most recently selected job, whatever order the        *)
(* responses arrive in.                                                   *)
(* ---------------------------------------------------------------------- *)
C26_LatestSelectionWins ==
  vcmReqs = <<>> /\ ~vcmFailed => vendorCandidateMatches = CandidatesFor(selectedJobId)

(* ---------------------------------------------------------------------- *)
(* C27: for a candidate whose plan has a finite poke limit L, the         *)
(* dashboard never dispatches a quick-poke request when L or more of the  *)
(* candidate's quick pokes have already succeeded, under any interleaving *)
(* of poke clicks, poke responses and re-fetches of the sent-poke list.   *)
(* ---------------------------------------------------------------------- *)
\* the free plan of the candidate dashboard
FreeCandidate == [dash |-> "candidate", plan |-> "free", hasPurchasedVisibility |-> TRUE]

\* the quick pokes of earlier sessions, one short of the limit, to jobs that
\* are no longer among the matches
EarlierPokes ==
  [k \in 1..(CandidatePokeLimit("free")[1] - 1) |->
     [target_id |-> Len(JobCatalog) + k, is_email |-> FALSE, created_at |-> 0]]

\* a candidate on the free plan comes back: the mount effects fetch the
\* matches and the sent pokes
InitReturning ==
  /\ props = FreeCandidate
  /\ now = 0
  /\ ticks = 0
  /\ srvMatches = Served(props.dash, Listed)
  /\ srvPokes = EarlierPokes
  /\ matches = <<>>
  /\ loading = TRUE
  /\ pokesSent = <<>>
  /\ pokeLoading = FALSE
  /\ matchesInflight = 1
  /\ pokesFetches = <<Len(EarlierPokes)>>
  /\ sendReqs = {}
  /\ sendCount = 0
  /\ rows = <<>>
  /\ searchText = <<>>
  /\ filterType = <<>>
  /\ filterSubType = <<>>
  /\ filterWorkMode = <<>>
  /\ membershipConfig = NoMembership
  /\ pokeEmailRow = <<>>
  /\ pokeEmailSentSuccess = FALSE
  /\ closeTimers = 0
  /\ localPokeCount = 0
  /\ lastCall = NoCall
  /\ TableMounted
  /\ ModalIdle
  /\ SliceIdle
  /\ RestIdle
  /\ csvOut = <<>>
  /\ NothingPasted

\* the steps of the candidate dashboard; a response of fetchPokesSent holds
\* the earlier records too
NextReturning ==
  \/ \E i \in 1..3 : ClickPoke(i)
  \/ \E i \in 1..3 : ClickMail(i)
  \/ SidebarMailTemplate
  \/ CloseComposer
  \/ \E blank \in BOOLEAN : ClickSend(blank)
  \/ AutoClearSuccess
  \/ \E q \in sendReqs : SendFulfilled(q)
  \/ \E q \in sendReqs : SendRejected(q)
  \/ \E k \in 1..MaxInflight, n \in 0..(Len(EarlierPokes) + MaxSends) :
       PokesFetchFulfilled(k, n)
  \/ \E k \in 1..MaxInflight : PokesFetchRejected(k)
  \/ MatchesFulfilled
  \/ MatchesRejected
  \/ RefreshMatches
  \/ RefreshData
  \/ \E d \in TickSteps : Tick(d)

SpecReturning == InitReturning /\ [][NextReturning]_vars

\* the quick pokes that have succeeded
SucceededQuickPokes == Cardinality({k \in DOMAIN srvPokes : ~srvPokes[k].is_email})

C27_NoQuickPokeBeyondLimit ==
  [][IsCandidateDash /\ IsFinite(pokeLimit)
       => \A q \in Dispatched : ~q.is_email => SucceededQuickPokes < pokeLimit[1]]_vars

(* ---------------------------------------------------------------------- *)
(* The mount of the candidate dashboard: the fetch effect, the effect     *)
(* that opens the profile modal, and the fetchProfile reducers.           *)
(* ---------------------------------------------------------------------- *)
\* the thunks the fetch effect dispatches, in its order
MOUNT_THUNKS == <<"fetchCandidateMatches", "fetchProfile", "fetchPokesSent",
                  "fetchPokesReceived">>

PROFILE == <<"p">>

\* mountStep when the effects of the mount have run
Mounted == Len(MOUNT_THUNKS) + 2

profFrame ==
  UNCHANGED <<props, clockVars, backendVars, matches, pokesSent, flightVars, rows,
              filterVars, composerVars, localPokeCount, lastCall, tableVars, csvOut,
              parseVars, modalVars, jobVars, draftVars, vcmVars>>

storeFlags == <<loading, error, pokeLoading, pokeError, profileLoading, profileError,
                pokesLoading>>

\* what a render reads from the store
Selected == [profileLoading |-> profileLoading, profile |-> profile]

\* the mount is over and the last render has seen the store as it is
Settled == mountStep = Mounted /\ seen = Selected

\* the effect with the dependencies [profileLoading, profile], run with the
\* values its render read
autoOpenEffect(pl, pr) ==
  IF profileChecked \/ pl
  THEN UNCHANGED <<profileChecked, profileOpen, autoOpens, decisions>>
  ELSE /\ profileChecked' = TRUE
       /\ decisions' = decisions + 1
       /\ IF hasPurchasedVisibility /\ pr = <<>>
          THEN profileOpen' = TRUE /\ autoOpens' = autoOpens + 1
          ELSE UNCHANGED <<profileOpen, autoOpens>>

\* the first render of the dashboard, for a candidate who has or has not
\* paid and has or has not a profile on the server
MountRender(paid, existing) ==
  /\ mountStep = 0
  /\ mountStep' = 1
  /\ hasPurchasedVisibility' = paid
  /\ srvProfile' = existing
  /\ seen' = Selected
  /\ UNCHANGED <<profile, profileChecked, profileOpen, autoOpens, decisions>>
  /\ UNCHANGED <<storeFlags, calls, lastRejected>>
  /\ profFrame

\* the fetch effect, one dispatch at a time
MountDispatch ==
  /\ mountStep \in DOMAIN MOUNT_THUNKS
  /\ mountStep' = mountStep + 1
  /\ calls' = calls \cup {MOUNT_THUNKS[mountStep]}
  /\ lastRejected' = <<>>
  /\ pendingReducer(MOUNT_THUNKS[mountStep])
  /\ UNCHANGED <<hasPurchasedVisibility, srvProfile, profile, seen, profileChecked,
                 profileOpen, autoOpens, decisions>>
  /\ profFrame

\* the second effect of the mount, with what the first render read
AutoOpenOnMount ==
  /\ mountStep = Len(MOUNT_THUNKS) + 1
  /\ mountStep' = Mounted
  /\ autoOpenEffect(seen.profileLoading, seen.profile)
  /\ UNCHANGED <<hasPurchasedVisibility, srvProfile, profile, seen>>
  /\ UNCHANGED <<storeFlags, calls, lastRejected>>
  /\ profFrame

\* the store changed: the dashboard renders again, and the effect runs
\* because one of its dependencies changed
Rerender ==
  /\ mountStep = Mounted
  /\ seen # Selected
  /\ seen' = Selected
  /\ autoOpenEffect(profileLoading, profile)
  /\ UNCHANGED <<mountStep, hasPurchasedVisibility, srvProfile, profile>>
  /\ UNCHANGED <<storeFlags, calls, lastRejected>>
  /\ profFrame

\* fetchProfile.fulfilled: state.profile = action.payload
ProfileFetched ==
  /\ Settled
  /\ "fetchProfile" \in calls
  /\ calls' = calls \ {"fetchProfile"}
  /\ lastRejected' = <<>>
  /\ fulfilledReducer("fetchProfile")
  /\ profile' = srvProfile
  /\ UNCHANGED <<mountStep, hasPurchasedVisibility, srvProfile, seen, profileChecked,
                 profileOpen, autoOpens, decisions>>
  /\ profFrame

\* fetchProfile fails: a 404 (no profile) is fulfilled with null, anything
\* else is rejected
ProfileFetchFails(failure) ==
  /\ Settled
  /\ "fetchProfile" \in calls
  /\ failure.status = 404 => srvProfile = <<>>
  /\ calls' = calls \ {"fetchProfile"}
  /\ IF Rejects("fetchProfile", failure)
     THEN /\ lastRejected' = <<[thunk |-> "fetchProfile", failure |-> failure]>>
          /\ rejectedReducer("fetchProfile", RejectValue("fetchProfile", failure))
          /\ UNCHANGED profile
     ELSE /\ lastRejected' = <<>>
          /\ fulfilledReducer("fetchProfile")
          /\ profile' = <<>>
  /\ UNCHANGED <<mountStep, hasPurchasedVisibility, srvProfile, seen, profileChecked,
                 profileOpen, autoOpens, decisions>>
  /\ profFrame

\* the other calls of the mount are answered
OtherFetched(thunk) == Settled /\ thunk # "fetchProfile" /\ CallSucceeds(thunk)
OtherFetchFails(thunk, failure) ==
  Settled /\ thunk # "fetchProfile" /\ CallFails(thunk, failure)

\* the sidebar's profile item: setProfileOpen(true)
OpenProfileModal ==
  /\ Settled
  /\ ~profileOpen
  /\ profileOpen' = TRUE
  /\ UNCHANGED <<mountStep, hasPurchasedVisibility, srvProfile, profile, seen,
                 profileChecked, autoOpens, decisions>>
  /\ UNCHANGED <<storeFlags, calls, lastRejected>>
  /\ profFrame

\* the modal's close button: setProfileOpen(false)
CloseProfileModal ==
  /\ Settled
  /\ profileOpen
  /\ profileOpen' = FALSE
  /\ UNCHANGED <<mountStep, hasPurchasedVisibility, srvProfile, profile, seen,
                 profileChecked, autoOpens, decisions>>
  /\ UNCHANGED <<storeFlags, calls, lastRejected>>
  /\ profFrame

NextProfile ==
  \/ \E paid \in BOOLEAN, existing \in {<<>>, <<PROFILE>>} : MountRender(paid, existing)
  \/ MountDispatch
  \/ AutoOpenOnMount
  \/ Rerender
  \/ ProfileFetched
  \/ \E failure \in FAILURES : ProfileFetchFails(failure)
  \/ \E thunk \in THUNKS : OtherFetched(thunk)
  \/ \E thunk \in THUNKS, failure \in FAILURES : OtherFetchFails(thunk, failure)
  \/ OpenProfileModal
  \/ CloseProfileModal

SpecProfile == InitParse /\ [][NextProfile]_vars

(* ---------------------------------------------------------------------- *)
(* C28: the profile modal is auto-opened on mount only for a candidate    *)
(* who has purchased visibility and whose profile fetch has completed     *)
(* with no profile; a paid candidate whose profile exists on the server   *)
(* never gets the modal auto-opened; and the auto-open decision is taken  *)
(* at most once per mount.                                                *)
(* ---------------------------------------------------------------------- *)
\* the fetch of the profile was dispatched and has been answered
ProfileFetchCompleted == mountStep = Mounted /\ "fetchProfile" \notin calls

AutoOpenOnlyAfterEmptyFetch ==
  autoOpens' > autoOpens
    => hasPurchasedVisibility /\ ProfileFetchCompleted /\ profile = <<>>

C28_AutoOpenOnlyWithoutProfile ==
  /\ [][AutoOpenOnlyAfterEmptyFetch]_vars
  /\ [](srvProfile # <<>> => autoOpens = 0)
  /\ [](decisions <= 1)

(* ---------------------------------------------------------------------- *)
(* The job type and sub-type selects of the post-job form.                *)
(* ---------------------------------------------------------------------- *)
\* the pieces of the texts that name a job type or a sub-type
TYPE_PIECES ==
  <<Chars(" C2C"), Chars(" contract"), Chars(" Full-Time"), Chars(" part time"),
    Chars(" salary")>>

showSubType == form.job_type = CONTRACT \/ form.job_type = FULL_TIME

\* the options of the sub-type select, "None" included
subTypes ==
  {<<>>} \cup (IF form.job_type = CONTRACT THEN Range(CONTRACT_SUB_TYPES)
              ELSE Range(FULL_TIME_SUB_TYPES))

\* the job type select: setField('job_type', value); setField('job_sub_type', '')
SetJobType(type) ==
  /\ parses < MaxParses
  /\ form' = [form EXCEPT !.job_type = type, !.job_sub_type = <<>>]
  /\ success' = FALSE
  /\ UNCHANGED <<pasteText, pasted, parseResult, parses>>
  /\ ParseFrame

\* the sub-type select, rendered for contract and full-time
SetJobSubType(sub) ==
  /\ parses < MaxParses
  /\ showSubType
  /\ sub \in subTypes
  /\ setField("job_sub_type", sub)

NextTypes ==
  \/ \E k \in DOMAIN TYPE_PIECES : PasteText(TYPE_PIECES[k])
  \/ \E type \in Range(JOB_TYPES) : SetJobType(type)
  \/ \E sub \in Range(CONTRACT_SUB_TYPES) \cup Range(FULL_TIME_SUB_TYPES) \cup {<<>>} :
       SetJobSubType(sub)
  \/ handleParse
  \/ ClearPaste

SpecTypes == InitParse /\ [][NextTypes]_vars

(* ---------------------------------------------------------------------- *)
(* C29: after any sequence of manual field edits and Parse & Fill         *)
(* operations on the post-job form, form.job_sub_type is either empty or  *)
(* one of the sub-types offered for the current form.job_type (contract:  *)
(* c2c, c2h, w2, 1099; full_time: c2h, w2, direct_hire, salary;           *)
(* part_time: none).                                                      *)
(* ---------------------------------------------------------------------- *)
C29_SubTypeFitsType ==
  form.job_sub_type = <<>> \/ form.job_sub_type \in SubTypesOf(form.job_type)

====
